---- MODULE Spec2Model ----
(***************************************************************************)
(* Model of pyeverything's binary-call adapter (pyeverything.dll,          *)
(* pyeverything.dll_class, pyeverything.everything), of the FILETIME codec *)
(* filetime_to_dt, of the es.exe adapter pyeverything.es with its CSV      *)
(* parser, of the HTTP adapter everything_file_list, and of the command    *)
(* line entry points of pyeverything.dll and pyeverything.dll_class with   *)
(* their connectivity diagnostic.                                          *)
(*                                                                         *)
(* Representation choices:                                                 *)
(*  - a path string is the sequence of its backslash-separated components  *)
(*    (<<"C:", "etc", "hosts">> is C:\etc\hosts); the empty string is <<>>;*)
(*  - a DWORD is a pair of 16-bit limbs <<hi16, lo16>>, a 64-bit tick      *)
(*    count is four limbs, most significant first;                         *)
(*  - a datetime is <<year, month, day, hour, minute, second, microsecond>>,*)
(*    Python's None in its place is <<>>.                                  *)
(***************************************************************************)
EXTENDS Integers, Sequences, FiniteSets, TLC

VARIABLES
    dll,        \* the provider's state behind the bound entry-point table
    th,         \* th[t]: the search call of caller thread t
    calls,      \* calls[t]: number of search calls thread t has started
    faults,     \* number of getter faults the provider has produced so far
    serialized, \* TRUE when the callers hold an external mutex around search
    lock,       \* owner of that mutex, 0 when free
    ft,         \* codec input: a FILETIME
    dt,         \* codec output: [done, value]
    csv,        \* one parse_csv_text call: its arguments and its result
    es,         \* one run of pyeverything.es main
    http,       \* one run of everything_file_list main
    ev,         \* the setter calls made on an Everything object
    diag        \* one run of pyeverything.dll main or pyeverything.dll_class main

vars == <<dll, th, calls, faults, serialized, lock, ft, dt, csv, es, http, ev, diag>>

(***************************************************************************)
(* Bounds of the model                                                     *)
(***************************************************************************)
MaxOffset == 2
MaxCount == 2
MaxCalls == 2
MaxFaults == 1

(***************************************************************************)
(* Timestamp codec: filetime_to_dt                                         *)
(***************************************************************************)
LimbBase == 65536

None == <<>>

\* quotient of a big-endian limb number by a small divisor (schoolbook division)
RECURSIVE DivLimbsFrom(_, _, _, _)
DivLimbsFrom(x, d, pos, rem) ==
    IF pos > Len(x) THEN <<>>
    ELSE LET cur == rem * LimbBase + x[pos]
         IN  <<cur \div d>> \o DivLimbsFrom(x, d, pos + 1, cur % d)

DivLimbs(x, d) == DivLimbsFrom(x, d, 1, 0)

RECURSIVE ModLimbsFrom(_, _, _, _)
ModLimbsFrom(x, d, pos, rem) ==
    IF pos > Len(x) THEN rem
    ELSE ModLimbsFrom(x, d, pos + 1, (rem * LimbBase + x[pos]) % d)

ModLimbs(x, d) == ModLimbsFrom(x, d, 1, 0)

IsZeroLimbs(x) == \A p \in 1..Len(x) : x[p] = 0

\* the limb number as an integer; used only where the value is known to fit
RECURSIVE LimbsToInt(_)
LimbsToInt(x) ==
    IF Len(x) = 0 THEN 0
    ELSE LimbsToInt(SubSeq(x, 1, Len(x) - 1)) * LimbBase + x[Len(x)]

\* ticks = (ft.dwHighDateTime << 32) | ft.dwLowDateTime
TicksOf(f) == f.dwHighDateTime \o f.dwLowDateTime

\* datetime.timedelta(microseconds=us): normalised to days, seconds, microseconds
TimeDelta(us) ==
    LET q1   == DivLimbs(us, 1000)
        r1   == ModLimbs(us, 1000)
        secs == DivLimbs(q1, 1000)
        r2   == ModLimbs(q1, 1000)
        mins == DivLimbs(secs, 60)
        hrs  == DivLimbs(mins, 60)
        days == DivLimbs(hrs, 24)
    IN  [days         |-> LimbsToInt(days),
         seconds      |-> (ModLimbs(hrs, 24) * 60 + ModLimbs(mins, 60)) * 60
                              + ModLimbs(secs, 60),
         microseconds |-> r2 * 1000 + r1]

EpochOrdinal == 584389
MaxOrdinal == 3652059

DaysBeforeMonth == <<0, 31, 59, 90, 120, 151, 181, 212, 243, 273, 304, 334>>
DaysInMonth == <<31, 28, 31, 30, 31, 30, 31, 31, 30, 31, 30, 31>>

\* datetime._ord2ymd: proleptic Gregorian ordinal -> <<year, month, day>>
Ord2Ymd(ordinal) ==
    LET n0   == ordinal - 1
        n400 == n0 \div 146097
        na   == n0 % 146097
        n100 == na \div 36524
        nb   == na % 36524
        n4   == nb \div 1461
        nc   == nb % 1461
        n1   == nc \div 365
        n    == nc % 365
        year == n400 * 400 + 1 + n100 * 100 + n4 * 4 + n1
        leap == n1 = 3 /\ (n4 # 24 \/ n100 = 3)
        m0   == (n + 50) \div 32
        p0   == DaysBeforeMonth[m0] + (IF m0 > 2 /\ leap THEN 1 ELSE 0)
        month == IF p0 > n THEN m0 - 1 ELSE m0
        prec == IF p0 > n
                THEN p0 - (DaysInMonth[m0 - 1] + (IF m0 - 1 = 2 /\ leap THEN 1 ELSE 0))
                ELSE p0
    IN  IF n1 = 4 \/ n100 = 4 THEN <<year - 1, 12, 31>>
        ELSE <<year, month, n - prec + 1>>

\* datetime.datetime(1601, 1, 1) + delta raises OverflowError in this case
DatetimeAddOverflows(delta) == EpochOrdinal + delta.days > MaxOrdinal

\* datetime.datetime(1601, 1, 1) + delta, as <<y, m, d, h, min, s, us>>
DatetimeAdd(delta) ==
    LET ymd == Ord2Ymd(EpochOrdinal + delta.days)
    IN  <<ymd[1], ymd[2], ymd[3],
          delta.seconds \div 3600, (delta.seconds % 3600) \div 60,
          delta.seconds % 60, delta.microseconds>>

\* the codec without its "except OverflowError" clause: the date is clamped
FiletimeNoOverflowGuard(f) ==
    LET ticks == TicksOf(f)
        delta == TimeDelta(DivLimbs(ticks, 10))
    IN  IF IsZeroLimbs(ticks) THEN None
        ELSE IF DatetimeAddOverflows(delta)
             THEN <<9999, 12, 31, 23, 59, 59, 999999>>
             ELSE DatetimeAdd(delta)

filetime_to_dt(f) ==
    LET ticks == TicksOf(f)
        delta == TimeDelta(DivLimbs(ticks, 10))
    IN  IF IsZeroLimbs(ticks) THEN None
        ELSE IF DatetimeAddOverflows(delta) THEN None
             ELSE DatetimeAdd(delta)

\* dt.isoformat() if dt else None: the microsecond part is printed only when non-zero
IsoOrNone(d) ==
    IF d = None THEN None
    ELSE IF d[7] = 0 THEN SubSeq(d, 1, 6) ELSE d

(***************************************************************************)
(* The provider: the index behind the entry-point table                    *)
(***************************************************************************)
FTZero == [dwHighDateTime |-> <<0, 0>>, dwLowDateTime |-> <<0, 0>>]
FT2024 == [dwHighDateTime |-> <<474, 15429>>, dwLowDateTime |-> <<30345, 49152>>]
FT2016 == [dwHighDateTime |-> <<465, 63960>>, dwLowDateTime |-> <<43950, 53760>>]
FTOverflow == [dwHighDateTime |-> <<32767, 65535>>, dwLowDateTime |-> <<65535, 65535>>]

HostsPath == <<"C:", "Windows", "System32", "drivers", "etc", "hosts">>

\* the files the index service knows, in its result order
Index ==
    << [full_path |-> HostsPath, size |-> 959, extension |-> "",
        date_created |-> FT2024, date_modified |-> FT2016, date_accessed |-> FTZero,
        attributes |-> 32, file_list_file_name |-> "", run_count |-> 0,
        date_run |-> FTZero, date_recently_changed |-> FTOverflow,
        highlighted_file_name |-> "*hosts*", highlighted_path |-> "C:\\...\\etc",
        highlighted_full_path |-> "C:\\...\\etc\\*hosts*"],
       [full_path |-> <<"C:", "Temp", "file.txt">>, size |-> 128, extension |-> "txt",
        date_created |-> FT2016, date_modified |-> FT2024, date_accessed |-> FT2024,
        attributes |-> 0, file_list_file_name |-> "list.efu", run_count |-> 3,
        date_run |-> FT2024, date_recently_changed |-> FTZero,
        highlighted_file_name |-> "file.txt", highlighted_path |-> "*C:*\\Temp",
        highlighted_full_path |-> "*C:*\\Temp\\file.txt"],
       [full_path |-> <<"C:", "Temp", "empty.log">>, size |-> 0, extension |-> "log",
        date_created |-> FTZero, date_modified |-> FTZero, date_accessed |-> FTZero,
        attributes |-> 1, file_list_file_name |-> "", run_count |-> 0,
        date_run |-> FTZero, date_recently_changed |-> FTZero,
        highlighted_file_name |-> "empty.log", highlighted_path |-> "*C:*\\Temp",
        highlighted_full_path |-> "*C:*\\Temp\\empty.log"] >>

Queries == {"C:", "etc"}

EVERYTHING_REQUEST_BASIC == 19
EVERYTHING_REQUEST_ALL == 65535

Min(a, b) == IF a < b THEN a ELSE b

\* the index entries a pattern selects: a pattern is one path component; with
\* SetMatchPath(TRUE) it is looked for in the whole path, else in the name only
Matching(pattern, matchPath) ==
    LET hit(n) == IF matchPath
                  THEN \E p \in 1..Len(Index[n].full_path) : Index[n].full_path[p] = pattern
                  ELSE Index[n].full_path[Len(Index[n].full_path)] = pattern
    IN  SelectSeq(<<1, 2, 3>>, hit)

\* the visible result window: skip `offset` matches, keep at most `max` (0: no limit)
Window(all, offset, max) ==
    LET from == Min(offset, Len(all)) + 1
        to   == IF max = 0 THEN Len(all) ELSE Min(Len(all), offset + max)
    IN  SubSeq(all, from, to)

\* str.lower() of a path component or a query word
lower(a) ==
    CASE a = "C:" -> "c:"
      [] a = "D:" -> "d:"
      [] a \in {"Windows", "WINDOWS"} -> "windows"
      [] a \in {"System32", "SYSTEM32"} -> "system32"
      [] a = "DRIVERS" -> "drivers"
      [] a = "ETC" -> "etc"
      [] a = "HOSTS" -> "hosts"
      [] a = "Temp" -> "temp"
      [] a = "D:/Windows/System32/drivers/etc/hosts" ->
             "d:/windows/system32/drivers/etc/hosts"
      [] OTHER -> a

\* Everything_SetSort values: by name (the provider's default) and by path
EVERYTHING_SORT_NAME == 1
EVERYTHING_SORT_PATH == 2

Reverse(s) == [j \in 1..Len(s) |-> s[Len(s) + 1 - j]]

DllDefaults ==
    [search |-> "", matchPath |-> FALSE, flags |-> 3, offset |-> 0, max |-> 0,
     results |-> <<>>, held |-> FALSE,
     matchCase |-> FALSE, wholeWord |-> FALSE, regex |-> FALSE,
     sort |-> EVERYTHING_SORT_NAME]

\* the match modes and the sort order a query runs with
ModesOf(d) ==
    [matchCase |-> d.matchCase, wholeWord |-> d.wholeWord, regex |-> d.regex,
     sort |-> d.sort]

\* the index entries the provider selects in state d: as Matching, with letter
\* case ignored unless SetMatchCase(TRUE), in the order SetSort asks for (Index
\* lists its paths from last to first; a pattern of the model is a whole word
\* without regex operators, so the two other modes select the same entries)
Selected(d) ==
    LET same(a) == IF d.matchCase THEN a = d.search ELSE lower(a) = lower(d.search)
        hit(n)  == IF d.matchPath
                   THEN \E p \in 1..Len(Index[n].full_path) : same(Index[n].full_path[p])
                   ELSE same(Index[n].full_path[Len(Index[n].full_path)])
        all     == SelectSeq(<<1, 2, 3>>, hit)
    IN  IF d.sort = EVERYTHING_SORT_PATH THEN Reverse(all) ELSE all

\* the configuration a query runs with
ConfigOf(d) ==
    [search |-> d.search, matchPath |-> d.matchPath, flags |-> d.flags,
     offset |-> d.offset, max |-> d.max]

HasResult(d, i) == i >= 0 /\ i < Len(d.results)

ResultAt(d, i) == Index[d.results[i + 1]]

(***************************************************************************)
(* The callers: one search call per thread at a time                       *)
(***************************************************************************)
Threads == {1, 2}

Apis == {"run_search", "EverythingDLL", "Everything"}

NoCfg == [search |-> "", matchPath |-> FALSE, flags |-> 0, offset |-> 0, max |-> 0]

EmptyCur ==
    [path |-> <<>>, size |-> 0, name |-> <<>>, ext |-> "", dc |-> None, dm |-> None,
     da |-> None, attr |-> 0, flfn |-> "", rc |-> 0, dr |-> None, drc |-> None,
     hfn |-> "", hp |-> "", hfp |-> ""]

IdleThread ==
    [pc |-> "idle", api |-> "none", query |-> "", offset |-> 0, count |-> 0,
     all_fields |-> FALSE, total |-> 0, i |-> 0, end_index |-> 0, buf |-> <<>>,
     cur |-> EmptyCur, k |-> 0, results |-> <<>>, outcome |-> "none", log |-> <<>>,
     qok |-> "none", qcfg |-> NoCfg, qmodes |-> ModesOf(DllDefaults)]

\* the optional field getters of extended mode, in call order
ExtGetters ==
    << "GetResultExtensionW", "GetResultDateCreated", "GetResultDateModified",
       "GetResultDateAccessed", "GetResultAttributes", "GetResultFileListFileNameW",
       "GetResultRunCount", "GetResultDateRun", "GetResultDateRecentlyChanged",
       "GetResultHighlightedFileNameW", "GetResultHighlightedPathW",
       "GetResultHighlightedFullPathAndFileNameW" >>

WStringSlots == {1, 6, 10, 11, 12}
DateSlots == {2, 3, 4, 8, 9}
DwordSlots == {5, 7}

\* os.path.basename (ntpath): the component after the last separator
basename(path) == IF Len(path) = 0 THEN <<>> ELSE <<path[Len(path)]>>

\* os.path.dirname (ntpath): everything before the last separator
dirname(path) == IF Len(path) = 0 THEN <<>> ELSE SubSeq(path, 1, Len(path) - 1)

\* os.path.join(path, name)
PathJoin(path, name) == path \o name

Logged(t, fn, idx) == Append(th[t].log, [fn |-> fn, idx |-> idx])

(***************************************************************************)
(* Pieces of the search routines                                           *)
(***************************************************************************)
\* variant: the routine leaves the request flags as they are
RequestFlagsKept(all_fields) == dll.flags

\* flags = EVERYTHING_REQUEST_ALL if all_fields else (FILE_NAME | PATH | SIZE)
RequestFlags(all_fields) ==
    IF all_fields THEN EVERYTHING_REQUEST_ALL ELSE EVERYTHING_REQUEST_BASIC

\* variants of the pieces below, each changed the way a slip in the routine would
\* change it: the offset is not passed on; the limit is not passed on
OffsetArgDropped(c) == 0
MaxArgNoLimit(c) == 0

\* the arguments the routines hand to Everything_SetOffset and Everything_SetMax
OffsetArg(c) == c.offset
MaxArg(c) == c.count

\* variant: the result of Everything_QueryW is not checked
AfterQueryWUnchecked(ok) == "GetNumResults"

\* where the routine goes after Everything_QueryW returned `ok`
AfterQueryW(ok) == IF ok THEN "GetNumResults" ELSE "aborted"

\* sys.exit in dll.run_search and Everything.search, RuntimeError in EverythingDLL.search
QueryFailure(api) == IF api = "EverythingDLL" THEN "RuntimeError" ELSE "SystemExit"

\* variant: the end of Everything.search's range is not clamped to total
EndIndexUnclamped(api, offset, count, total) ==
    IF api = "Everything" /\ count # 0 THEN offset + count ELSE total

\* range(total) in run_search and EverythingDLL.search;
\* range(offset, min(offset + count, total)) or range(offset, total) in Everything.search
StartIndex(api, offset) == IF api = "Everything" THEN offset ELSE 0
EndIndex(api, offset, count, total) ==
    IF api = "Everything" /\ count # 0 THEN Min(offset + count, total) ELSE total

\* variant: the routine returns right after the loop, without Everything_CleanUp
LoopPcNoCleanUp(i, end) == IF i < end THEN "GetResultFullPathNameW" ELSE "done"

\* the loop test: the next provider call of the routine
LoopPc(i, end) == IF i < end THEN "GetResultFullPathNameW" ELSE "CleanUp"

\* results.append({"name": name, "path": path, "size": size})
BasicRecord(cur) == [name |-> cur.name, path |-> cur.path, size |-> cur.size]

\* results.append({... the fifteen keys of extended mode ...})
ExtendedRecord(cur) ==
    [name |-> cur.name, path |-> cur.path, size |-> cur.size, extension |-> cur.ext,
     date_created |-> IsoOrNone(cur.dc), date_modified |-> IsoOrNone(cur.dm),
     date_accessed |-> IsoOrNone(cur.da), attributes |-> cur.attr,
     list_file_name |-> cur.flfn, run_count |-> cur.rc, date_run |-> IsoOrNone(cur.dr),
     date_recently_changed |-> IsoOrNone(cur.drc), highlighted_file_name |-> cur.hfn,
     highlighted_path |-> cur.hp, highlighted_full_path |-> cur.hfp]

\* what the provider holds for optional field k of a result entry
ExtField(e, k) ==
    CASE k = 1 -> e.extension
      [] k = 2 -> e.date_created
      [] k = 3 -> e.date_modified
      [] k = 4 -> e.date_accessed
      [] k = 5 -> e.attributes
      [] k = 6 -> e.file_list_file_name
      [] k = 7 -> e.run_count
      [] k = 8 -> e.date_run
      [] k = 9 -> e.date_recently_changed
      [] k = 10 -> e.highlighted_file_name
      [] k = 11 -> e.highlighted_path
      [] k = 12 -> e.highlighted_full_path

\* the local variable of the loop body that optional field k is stored in
SetSlot(cur, k, v) ==
    CASE k = 1 -> [cur EXCEPT !.ext = v]
      [] k = 2 -> [cur EXCEPT !.dc = v]
      [] k = 3 -> [cur EXCEPT !.dm = v]
      [] k = 4 -> [cur EXCEPT !.da = v]
      [] k = 5 -> [cur EXCEPT !.attr = v]
      [] k = 6 -> [cur EXCEPT !.flfn = v]
      [] k = 7 -> [cur EXCEPT !.rc = v]
      [] k = 8 -> [cur EXCEPT !.dr = v]
      [] k = 9 -> [cur EXCEPT !.drc = v]
      [] k = 10 -> [cur EXCEPT !.hfn = v]
      [] k = 11 -> [cur EXCEPT !.hp = v]
      [] k = 12 -> [cur EXCEPT !.hfp = v]

\* how a text getter call can go. EverythingDLL._get_wstring_field: the buffer
\* call works ("ok"), or raises and the pointer call returns a string
\* ("raise_ptr"), NULL ("raise_null") or raises too ("raise_raise"). The other
\* two routines call the getter directly. (Every getter is touched when the
\* entry points are bound, so none is missing once a search can run.)
WStringOutcomes(api) ==
    IF api = "EverythingDLL"
    THEN {"ok", "raise_ptr", "raise_null", "raise_raise"}
    ELSE {"ok", "raise"}

\* [exc, value]: the exception that leaves the getter ("" when none) and the text
WStringResult(api, o, v) ==
    IF api = "EverythingDLL"
    THEN [exc |-> "", value |-> IF o \in {"ok", "raise_ptr"} THEN v ELSE ""]
    ELSE IF o = "ok" THEN [exc |-> "", value |-> v]
         ELSE [exc |-> "OSError", value |-> ""]

\* a direct provider call self.dll.X(i, ...) with outcome o: the exception that leaves it
DirectCallExc(o) ==
    CASE o = "ok" -> ""
      [] o = "nowrite" -> ""
      [] o = "raise" -> "OSError"

\* outcomes the provider may still produce: faults are budgeted
Outcomes(all) == IF faults < MaxFaults THEN all ELSE {"ok"}

Fault(o) == IF o = "ok" THEN faults ELSE faults + 1

Release(t) == IF lock = t THEN 0 ELSE lock

\* the call of thread t ends with exception exc
Aborted(c, exc) == [c EXCEPT !.pc = "aborted", !.outcome = exc]

\* the loop body is complete: append the record and go to the next index
Appended(c, cur) ==
    [c EXCEPT !.cur = cur,
              !.results = Append(c.results,
                                 IF c.all_fields THEN ExtendedRecord(cur)
                                 ELSE BasicRecord(cur)),
              !.i = c.i + 1,
              !.k = 0,
              !.pc = LoopPc(c.i + 1, c.end_index)]

(***************************************************************************)
(* Actions: one per provider call of a search routine                      *)
(***************************************************************************)
SerialArgs ==
    [api : Apis, query : Queries, offset : 0..MaxOffset, count : 0..MaxCount,
     all_fields : BOOLEAN]

\* a caller enters run_search / EverythingDLL.search / Everything.search
Call(t, Args, limit) ==
    /\ th[t].pc \in {"idle", "done", "aborted"}
    /\ calls[t] < limit
    /\ serialized => lock = 0
    /\ \E a \in Args :
          th' = [th EXCEPT ![t] =
                    [IdleThread EXCEPT !.pc = "SetSearchW", !.api = a.api,
                                       !.query = a.query, !.offset = a.offset,
                                       !.count = a.count, !.all_fields = a.all_fields]]
    /\ calls' = [calls EXCEPT ![t] = @ + 1]
    /\ lock' = IF serialized THEN t ELSE lock
    /\ UNCHANGED <<dll, faults, serialized, ft, dt, csv, es, http, ev, diag>>

\* dll.Everything_SetSearchW(query)
SetSearchW(t) ==
    /\ th[t].pc = "SetSearchW"
    /\ dll' = [dll EXCEPT !.search = th[t].query]
    /\ th' = [th EXCEPT ![t].pc = "SetMatchPath", ![t].log = Logged(t, "SetSearchW", -1)]
    /\ UNCHANGED <<calls, faults, serialized, lock, ft, dt, csv, es, http, ev, diag>>

\* dll.Everything_SetMatchPath(True)
SetMatchPath(t) ==
    /\ th[t].pc = "SetMatchPath"
    /\ dll' = [dll EXCEPT !.matchPath = TRUE]
    /\ th' = [th EXCEPT ![t].pc = "SetRequestFlags",
                        ![t].log = Logged(t, "SetMatchPath", -1)]
    /\ UNCHANGED <<calls, faults, serialized, lock, ft, dt, csv, es, http, ev, diag>>

\* dll.Everything_SetRequestFlags(flags)
SetRequestFlags(t) ==
    /\ th[t].pc = "SetRequestFlags"
    /\ dll' = [dll EXCEPT !.flags = RequestFlags(th[t].all_fields)]
    /\ th' = [th EXCEPT ![t].pc = "SetOffset",
                        ![t].log = Logged(t, "SetRequestFlags", -1)]
    /\ UNCHANGED <<calls, faults, serialized, lock, ft, dt, csv, es, http, ev, diag>>

\* dll.Everything_SetOffset(offset)
SetOffset(t) ==
    /\ th[t].pc = "SetOffset"
    /\ dll' = [dll EXCEPT !.offset = OffsetArg(th[t])]
    /\ th' = [th EXCEPT ![t].pc = "SetMax", ![t].log = Logged(t, "SetOffset", -1)]
    /\ UNCHANGED <<calls, faults, serialized, lock, ft, dt, csv, es, http, ev, diag>>

\* dll.Everything_SetMax(count)
SetMax(t) ==
    /\ th[t].pc = "SetMax"
    /\ dll' = [dll EXCEPT !.max = MaxArg(th[t])]
    /\ th' = [th EXCEPT ![t].pc = "QueryW", ![t].log = Logged(t, "SetMax", -1)]
    /\ UNCHANGED <<calls, faults, serialized, lock, ft, dt, csv, es, http, ev, diag>>

\* if not dll.Everything_QueryW(True): sys.exit(...) / raise RuntimeError(...)
QueryW(t) ==
    /\ th[t].pc = "QueryW"
    /\ \E ok \in BOOLEAN :
          /\ dll' = IF ok
                    THEN [dll EXCEPT !.results = Window(Selected(dll), dll.offset, dll.max),
                                     !.held = TRUE]
                    ELSE dll
          /\ th' = [th EXCEPT ![t].pc = AfterQueryW(ok),
                              ![t].outcome = IF AfterQueryW(ok) = "aborted"
                                             THEN QueryFailure(th[t].api) ELSE "none",
                              ![t].qok = IF ok THEN "ok" ELSE "failed",
                              ![t].qcfg = ConfigOf(dll),
                              ![t].qmodes = ModesOf(dll),
                              ![t].log = Logged(t, "QueryW", -1)]
          /\ lock' = IF AfterQueryW(ok) = "aborted" THEN Release(t) ELSE lock
    /\ UNCHANGED <<calls, faults, serialized, ft, dt, csv, es, http, ev, diag>>

\* total = dll.Everything_GetNumResults(); results = []; buf = create_unicode_buffer(260)
GetNumResults(t) ==
    /\ th[t].pc = "GetNumResults"
    /\ LET c     == th[t]
           total == Len(dll.results)
           start == StartIndex(c.api, c.offset)
           end   == EndIndex(c.api, c.offset, c.count, total)
       IN  th' = [th EXCEPT ![t].total = total, ![t].i = start, ![t].end_index = end,
                            ![t].pc = LoopPc(start, end),
                            ![t].log = Logged(t, "GetNumResults", -1)]
    /\ UNCHANGED <<dll, calls, faults, serialized, lock, ft, dt, csv, es, http, ev, diag>>

\* dll.Everything_GetResultFullPathNameW(i, buf, 260); path = buf.value
GetResultFullPathNameW(t) ==
    /\ th[t].pc = "GetResultFullPathNameW"
    /\ \E o \in Outcomes({"ok", "nowrite", "raise"}) :
          LET c    == th[t]
              buf  == IF o = "ok" /\ HasResult(dll, c.i)
                      THEN ResultAt(dll, c.i).full_path ELSE c.buf
              c1   == [c EXCEPT !.log = Logged(t, "GetResultFullPathNameW", c.i)]
          IN  /\ th' = [th EXCEPT ![t] =
                          IF DirectCallExc(o) # "" THEN Aborted(c1, DirectCallExc(o))
                          ELSE [c1 EXCEPT !.buf = buf,
                                          !.cur = [EmptyCur EXCEPT !.path = buf],
                                          !.pc = "GetResultSize"]]
              /\ lock' = IF DirectCallExc(o) # "" THEN Release(t) ELSE lock
              /\ faults' = Fault(o)
    /\ UNCHANGED <<dll, calls, serialized, ft, dt, csv, es, http, ev, diag>>

\* size_var = c_ulonglong(); dll.Everything_GetResultSize(i, byref(size_var));
\* size = size_var.value; name = os.path.basename(path)
GetResultSize(t) ==
    /\ th[t].pc = "GetResultSize"
    /\ \E o \in Outcomes({"ok", "raise"}) :
          LET c    == th[t]
              size == IF HasResult(dll, c.i) THEN ResultAt(dll, c.i).size ELSE 0
              cur  == [c.cur EXCEPT !.size = size, !.name = basename(c.cur.path)]
              c1   == [c EXCEPT !.log = Logged(t, "GetResultSize", c.i)]
          IN  /\ th' = [th EXCEPT ![t] =
                          IF DirectCallExc(o) # "" THEN Aborted(c1, DirectCallExc(o))
                          ELSE IF c.all_fields
                               THEN [c1 EXCEPT !.cur = cur, !.k = 1, !.pc = "GetExt"]
                               ELSE Appended(c1, cur)]
              /\ lock' = IF DirectCallExc(o) # "" THEN Release(t) ELSE lock
              /\ faults' = Fault(o)
    /\ UNCHANGED <<dll, calls, serialized, ft, dt, csv, es, http, ev, diag>>

\* what follows optional field k: the next getter, or the append after the last one
AfterSlot(c, cur) ==
    IF c.k = Len(ExtGetters) THEN Appended(c, cur)
    ELSE [c EXCEPT !.cur = cur, !.k = c.k + 1]

\* a text field: extension, file-list file name, the highlighted variants
GetWStringField(t) ==
    /\ th[t].pc = "GetExt"
    /\ th[t].k \in WStringSlots
    /\ \E o \in Outcomes(WStringOutcomes(th[t].api)) :
          LET c   == th[t]
              v   == IF HasResult(dll, c.i) THEN ExtField(ResultAt(dll, c.i), c.k) ELSE ""
              r   == WStringResult(c.api, o, v)
              c1  == [c EXCEPT !.log = Logged(t, ExtGetters[c.k], c.i)]
          IN  /\ th' = [th EXCEPT ![t] =
                          IF r.exc # "" THEN Aborted(c1, r.exc)
                          ELSE AfterSlot(c1, SetSlot(c.cur, c.k, r.value))]
              /\ lock' = IF r.exc # "" THEN Release(t) ELSE lock
              /\ faults' = Fault(o)
    /\ UNCHANGED <<dll, calls, serialized, ft, dt, csv, es, http, ev, diag>>

\* ft = FILETIME(); dll.Everything_GetResultDateX(i, byref(ft)); d = filetime_to_dt(ft)
GetDateField(t) ==
    /\ th[t].pc = "GetExt"
    /\ th[t].k \in DateSlots
    /\ \E o \in Outcomes({"ok", "raise"}) :
          LET c   == th[t]
              f   == IF HasResult(dll, c.i) THEN ExtField(ResultAt(dll, c.i), c.k)
                     ELSE FTZero
              c1  == [c EXCEPT !.log = Logged(t, ExtGetters[c.k], c.i)]
          IN  /\ th' = [th EXCEPT ![t] =
                          IF DirectCallExc(o) # "" THEN Aborted(c1, DirectCallExc(o))
                          ELSE AfterSlot(c1, SetSlot(c.cur, c.k, filetime_to_dt(f)))]
              /\ lock' = IF DirectCallExc(o) # "" THEN Release(t) ELSE lock
              /\ faults' = Fault(o)
    /\ UNCHANGED <<dll, calls, serialized, ft, dt, csv, es, http, ev, diag>>

\* attr = dll.Everything_GetResultAttributes(i); rc = dll.Everything_GetResultRunCount(i)
GetDwordField(t) ==
    /\ th[t].pc = "GetExt"
    /\ th[t].k \in DwordSlots
    /\ \E o \in Outcomes({"ok", "raise"}) :
          LET c   == th[t]
              v   == IF HasResult(dll, c.i) THEN ExtField(ResultAt(dll, c.i), c.k) ELSE 0
              c1  == [c EXCEPT !.log = Logged(t, ExtGetters[c.k], c.i)]
          IN  /\ th' = [th EXCEPT ![t] =
                          IF DirectCallExc(o) # "" THEN Aborted(c1, DirectCallExc(o))
                          ELSE AfterSlot(c1, SetSlot(c.cur, c.k, v))]
              /\ lock' = IF DirectCallExc(o) # "" THEN Release(t) ELSE lock
              /\ faults' = Fault(o)
    /\ UNCHANGED <<dll, calls, serialized, ft, dt, csv, es, http, ev, diag>>

\* dll.Everything_CleanUp(); return results  (Everything.search goes on to Reset)
CleanUp(t) ==
    /\ th[t].pc = "CleanUp"
    /\ dll' = [dll EXCEPT !.results = <<>>, !.held = FALSE]
    /\ LET last == th[t].api # "Everything"
       IN  /\ th' = [th EXCEPT ![t].pc = IF last THEN "done" ELSE "Reset",
                               ![t].outcome = IF last THEN "returned" ELSE "none",
                               ![t].log = Logged(t, "CleanUp", -1)]
           /\ lock' = IF last THEN Release(t) ELSE lock
    /\ UNCHANGED <<calls, faults, serialized, ft, dt, csv, es, http, ev, diag>>

\* self.dll.Everything_Reset(); return results  (Everything.search only)
Reset(t) ==
    /\ th[t].pc = "Reset"
    /\ dll' = DllDefaults
    /\ th' = [th EXCEPT ![t].pc = "done", ![t].outcome = "returned",
                        ![t].log = Logged(t, "Reset", -1)]
    /\ lock' = Release(t)
    /\ UNCHANGED <<calls, faults, serialized, ft, dt, csv, es, http, ev, diag>>

\* the provider calls of dll.run_search and EverythingDLL.search
StepDll(t) ==
    \/ SetSearchW(t) \/ SetMatchPath(t) \/ SetRequestFlags(t) \/ SetOffset(t)
    \/ SetMax(t) \/ QueryW(t) \/ GetNumResults(t) \/ GetResultFullPathNameW(t)
    \/ GetResultSize(t) \/ GetWStringField(t) \/ GetDateField(t) \/ GetDwordField(t)
    \/ CleanUp(t)

\* Everything.search makes the same calls and ends with Everything_Reset
Step(t) == StepDll(t) \/ Reset(t)

(***************************************************************************)
(* The setters of pyeverything.everything.Everything                       *)
(*                                                                         *)
(* ev.log keeps every setter call with the number of search calls started  *)
(* before it; a Python bool handed to the provider is 0 or 1.              *)
(***************************************************************************)
\* number of setter calls made on one Everything object
MaxSets == 2

IdleEv == [sets |-> 0, log |-> <<>>]

IdleDiag ==
    [pc |-> "idle", api |-> "none",
     args |-> [test |-> FALSE, json |-> FALSE, search |-> None],
     fs |-> None, searched |-> <<>>, results |-> <<>>, fschecks |-> 0,
     out |-> <<>>, code |-> 0, exc |-> "", message |-> ""]

\* the setter calls a caller makes: method and argument
SetterCalls ==
    { [fn |-> "set_match_case", value |-> 1], [fn |-> "set_match_case", value |-> 0],
      [fn |-> "set_match_whole_word", value |-> 1], [fn |-> "set_regex", value |-> 1],
      [fn |-> "set_sort_order", value |-> EVERYTHING_SORT_PATH],
      [fn |-> "set_request_flags", value |-> 1],
      [fn |-> "set_max", value |-> 1], [fn |-> "set_offset", value |-> 1] }

\* each setter hands its argument to one provider call
SetterEffect(d, s) ==
    CASE s.fn = "set_match_case" -> [d EXCEPT !.matchCase = (s.value # 0)]
      [] s.fn = "set_match_whole_word" -> [d EXCEPT !.wholeWord = (s.value # 0)]
      [] s.fn = "set_request_flags" -> [d EXCEPT !.flags = s.value]
      [] s.fn = "set_regex" -> [d EXCEPT !.regex = (s.value # 0)]
      [] s.fn = "set_max" -> [d EXCEPT !.max = s.value]
      [] s.fn = "set_offset" -> [d EXCEPT !.offset = s.value]
      [] s.fn = "set_sort_order" -> [d EXCEPT !.sort = s.value]

\* everything.set_match_case(enable) and the six other setters, called by
\* caller t between two searches
SetMode(t) ==
    /\ th[t].pc \in {"idle", "done", "aborted"}
    /\ ev.sets < MaxSets
    /\ \E s \in SetterCalls :
          /\ dll' = SetterEffect(dll, s)
          /\ ev' = [sets |-> ev.sets + 1,
                    log |-> Append(ev.log, [fn |-> s.fn, value |-> s.value,
                                            at |-> calls[t]])]
    /\ UNCHANGED <<th, calls, faults, serialized, lock, ft, dt, csv, es, http, diag>>

(***************************************************************************)
(* Tabular parser: pyeverything.es.parse_csv_text                          *)
(*                                                                         *)
(* csv_text is represented by the rows csv.reader yields from it: a        *)
(* sequence of rows, each a sequence of cells, each cell a string in the   *)
(* component representation above ("959" is <<"959">>, "" is <<>>).        *)
(* A record (a Python dict) is a function from its keys to cells.          *)
(***************************************************************************)
\* number of rows after the first one in a parsed text
MaxRows == 2

\* header_mapping.get(h) is None
NoKey == ""

\* header_mapping.get(h): an exact dictionary lookup of the cell's text
header_mapping(h) ==
    IF Len(h) # 1 THEN NoKey
    ELSE CASE h[1] = "Name" -> "name"
           [] h[1] = "Filename" -> "path"
           [] h[1] = "Path" -> "path"
           [] h[1] = "Full Path and Name" -> "path"
           [] h[1] = "Extension" -> "extension"
           [] h[1] = "Size" -> "size"
           [] h[1] = "Date Created" -> "date_created"
           [] h[1] = "Date Modified" -> "date_modified"
           [] h[1] = "Date Accessed" -> "date_accessed"
           [] h[1] = "Attributes" -> "attributes"
           [] h[1] = "File List File Name" -> "file_list_file_name"
           [] h[1] = "Run Count" -> "run_count"
           [] h[1] = "Date Run" -> "date_run"
           [] h[1] = "Date Recently Changed" -> "date_recently_changed"
           [] OTHER -> NoKey

\* mapped = [header_mapping.get(h) for h in first]; any(m is not None for m in mapped)
has_header(first) == \E p \in 1..Len(first) : header_mapping(first[p]) # NoKey

\* keys: the header's field names, or the requested field names in order
ColumnKeys(first, field_names) ==
    IF has_header(first) THEN [p \in 1..Len(first) |-> header_mapping(first[p])]
    ELSE field_names

\* a parse that loses the first row of header-less text
RowsAfterFirst(rows) == Tail(rows)

\* the rows iterated: the reader's remaining rows, or [first] + list(reader)
DataRowsOf(rows) == IF has_header(rows[1]) THEN Tail(rows) ELSE rows

\* the value standing for Python's None in a record; no cell of a text equals it
Missing == <<"<None>">>

EmptyRec == [k \in {} |-> <<>>]

\* rec[key] = val
Put(rec, key, val) ==
    [k \in DOMAIN rec \cup {key} |-> IF k = key THEN val ELSE rec[k]]

\* for i, val in enumerate(row): stop at len(keys); store under a non-empty key
RECURSIVE RowCells(_, _, _, _)
RowCells(row, keys, i, rec) ==
    IF i > Len(row) \/ i > Len(keys) THEN rec
    ELSE RowCells(row, keys, i + 1,
                  IF keys[i] # NoKey THEN Put(rec, keys[i], row[i]) ELSE rec)

\* texts written with forward slashes, each kept as one component
SlashTexts == {"C:/Temp"}

\* '\\' in s or '/' in s
HasSeparator(s) == Len(s) > 1 \/ \E p \in 1..Len(s) : s[p] \in SlashTexts

\* rec.get(k) is truthy
Truthy(rec, k) == k \in DOMAIN rec /\ rec[k] # <<>>

\* the path normalisation: join a separator-free path with the name
NormalizePath(rec) ==
    IF Truthy(rec, "path") /\ Truthy(rec, "name") /\ ~HasSeparator(rec["path"])
    THEN Put(rec, "path", PathJoin(rec["path"], rec["name"]))
    ELSE rec

\* a record left without the fields its row did not bring
NotPadded(rec, field_names) == rec

\* for name in field_names: rec.setdefault(name, None)
SetDefaults(rec, field_names) ==
    LET names == {field_names[p] : p \in 1..Len(field_names)}
    IN  [k \in DOMAIN rec \cup names |-> IF k \in DOMAIN rec THEN rec[k] ELSE Missing]

RowRecord(row, keys, field_names) ==
    SetDefaults(NormalizePath(RowCells(row, keys, 1, EmptyRec)), field_names)

parse_csv_text(rows, field_names) ==
    IF Len(rows) = 0 THEN <<>>
    ELSE LET keys == ColumnKeys(rows[1], field_names)
             data == DataRowsOf(rows)
         IN  [j \in 1..Len(data) |-> RowRecord(data[j], keys, field_names)]

IdleCsv == [rows |-> <<>>, field_names |-> <<>>, done |-> TRUE, records |-> <<>>]

\* records = parse_csv_text(csv_text, field_names)
ParseCsv ==
    /\ ~csv.done
    /\ csv' = [csv EXCEPT !.done = TRUE,
                          !.records = parse_csv_text(csv.rows, csv.field_names)]
    /\ UNCHANGED <<dll, th, calls, faults, serialized, lock, ft, dt, es, http, ev, diag>>

(***************************************************************************)
(* Subprocess adapter: pyeverything.es                                     *)
(*                                                                         *)
(* The --search text is represented by the token list shlex.split yields   *)
(* from it (<<>> when --search is absent); a command line is the argument  *)
(* list after the executable; es.exe's stdout is its list of rows or lines.*)
(***************************************************************************)
\* the places locate_es looks in, in the order of its statements
Locations ==
    << "PATH", "package bin", "cwd", "cwd bin", "C:\\bin\\es.exe",
       "ProgramFiles\\Everything\\es.exe", "ProgramFiles(x86)\\Everything\\es.exe" >>

Locs == 1..Len(Locations)

\* locations tested with os.path.isfile and os.access(.., os.X_OK)
AccessLocs == {2, 3, 4}

\* what a location holds: nothing, a file that is not executable, an executable
FileStates == {"absent", "file", "exec"}

\* the filesystem calls locate_es makes for location k, in order
ChecksOf(fs, k) ==
    IF k = 1 THEN << [loc |-> k, fn |-> "which"] >>
    ELSE IF k \in AccessLocs /\ fs[k] # "absent"
         THEN << [loc |-> k, fn |-> "isfile"], [loc |-> k, fn |-> "access"] >>
         ELSE << [loc |-> k, fn |-> "isfile"] >>

\* the outcome of those calls: es_cmd is set to location k
FoundAt(fs, k) ==
    IF k = 1 \/ k \in AccessLocs THEN fs[k] = "exec" ELSE fs[k] # "absent"

\* a locate_es whose later blocks are not guarded by "if not es_cmd"
AfterProbeUnguarded(k, found) ==
    IF k < Len(Locations) THEN "locate" ELSE IF found THEN "located" ELSE "not found"

\* where locate_es goes after looking at location k
AfterProbe(k, found) ==
    IF found THEN "located"
    ELSE IF k < Len(Locations) THEN "locate" ELSE "not found"

NotFoundMessage ==
    "Error: 'es.exe' not found in PATH, package bin directory, current directory, repo ./bin, or common install locations."

\* build_field_config: the lists of its all_fields branch
AllFieldFlags ==
    << "-name", "-full-path-and-name", "-extension", "-size", "-date-created",
       "-date-modified", "-date-accessed", "-attributes", "-file-list-file-name",
       "-run-count", "-date-run", "-date-recently-changed", "-csv" >>

AllFieldNames ==
    << "name", "path", "extension", "size", "date_created", "date_modified",
       "date_accessed", "attributes", "file_list_file_name", "run_count",
       "date_run", "date_recently_changed" >>

BasicFlags == << "-name", "-full-path-and-name", "-size", "-csv" >>

BasicNames == << "name", "path", "size" >>

\* build_field_config(all_fields): the return statement stands in the else
\* branch, so the all_fields branch falls off the end and returns None
build_field_config(all_fields) ==
    IF all_fields THEN None ELSE << BasicFlags, BasicNames >>

\* "field_flags, field_names = ..." raises TypeError on a value that is no pair
Unpacks(cfg) == Len(cfg) = 2

\* the field list main hands to the parser in the -efu branch
EfuExpected == << "path", "size", "date_modified", "date_created", "attributes" >>

\* main's command line after es_cmd, for a configuration that unpacked
CommandLine(args, field_flags) ==
    IF args.csv \/ args.json
    THEN IF args.all_fields
         THEN << "-n", ToString(args.count) >> \o field_flags \o args.search
         ELSE << "-efu", "-n", ToString(args.count) >> \o args.search
    ELSE << "-p", "-n", ToString(args.count) >> \o args.search

\* main's "expected" argument of parse_csv_text; not assigned in plain text mode
Expected(args, field_names) ==
    IF ~(args.csv \/ args.json) THEN <<>>
    ELSE IF args.all_fields THEN field_names ELSE EfuExpected

\* es.exe: the decimal number an option argument spells
IntOf(s) == CHOOSE n \in 0..(MaxOffset + MaxCount + 2) : ToString(n) = s

\* es.exe: options that take no argument
EsSwitches ==
    {"-efu", "-p"} \cup {AllFieldFlags[p] : p \in 1..Len(AllFieldFlags)}

NoOptions == [switches |-> {}, n |-> 0, offset |-> 0, tokens |-> <<>>]

\* es.exe: its reading of the command line (n = 0: no limit given)
RECURSIVE ScanArgs(_, _, _)
ScanArgs(argv, p, acc) ==
    IF p > Len(argv) THEN acc
    ELSE IF argv[p] = "-n" /\ p < Len(argv)
         THEN ScanArgs(argv, p + 2, [acc EXCEPT !.n = IntOf(argv[p + 1])])
    ELSE IF argv[p] = "-offset" /\ p < Len(argv)
         THEN ScanArgs(argv, p + 2, [acc EXCEPT !.offset = IntOf(argv[p + 1])])
    ELSE IF argv[p] \in EsSwitches
         THEN ScanArgs(argv, p + 1, [acc EXCEPT !.switches = @ \cup {argv[p]}])
    ELSE ScanArgs(argv, p + 1, [acc EXCEPT !.tokens = Append(@, argv[p])])

\* es.exe: the index entries selected by every token; "*" matches any name
EsMatches(tokens, matchPath) ==
    LET hits(tok) == Matching(tok, matchPath)
        hit(n) == \A q \in 1..Len(tokens) :
                      tokens[q] = "*" \/ \E m \in 1..Len(hits(tokens[q])) : hits(tokens[q])[m] = n
    IN  SelectSeq(<<1, 2, 3>>, hit)

\* the header line of an -efu export
EfuHeader ==
    << <<"Filename">>, <<"Size">>, <<"Date Modified">>, <<"Date Created">>, <<"Attributes">> >>

\* es.exe: a FILETIME as an -efu cell, empty when unset
EfuDate(f) ==
    IF f = FTZero THEN <<>>
    ELSE IF f = FT2024 THEN <<"133485408000000000">>
    ELSE IF f = FT2016 THEN <<"131160573159068160">>
    ELSE <<"9223372036854775807">>

EfuRow(e) ==
    << e.full_path, <<ToString(e.size)>>, EfuDate(e.date_modified),
       EfuDate(e.date_created), <<ToString(e.attributes)>> >>

\* es.exe: stdout of a successful run, as rows (-efu) or as lines of one cell
EsExe(argv, withHeader) ==
    LET opts == ScanArgs(argv, 1, NoOptions)
        hits == Window(EsMatches(opts.tokens, "-p" \in opts.switches), opts.offset, opts.n)
    IN  IF "-efu" \in opts.switches
        THEN (IF withHeader THEN <<EfuHeader>> ELSE <<>>)
                 \o [j \in 1..Len(hits) |-> EfuRow(Index[hits[j]])]
        ELSE [j \in 1..Len(hits) |-> << Index[hits[j]].full_path >>]

\* es.exe: what it writes to stderr when it fails
EsStderr == "Error 8: Everything IPC window not found."

\* subprocess.run(..., check=False)
RaisesNever(returncode) == FALSE

\* subprocess.run(..., check=True) raises CalledProcessError
RaisesCalledProcessError(returncode) == returncode # 0

NoOutput == [kind |-> "none", records |-> <<>>, lines |-> <<>>, text |-> ""]

EsArgs(searches, offsets, counts) ==
    [locate : BOOLEAN, es_help : BOOLEAN, search : searches, offset : offsets,
     count : counts, all_fields : BOOLEAN, json : BOOLEAN, csv : BOOLEAN]

IdleEs ==
    [pc |-> "idle",
     args |-> [locate |-> FALSE, es_help |-> FALSE, search |-> <<>>, offset |-> 0,
               count |-> 0, all_fields |-> FALSE, json |-> FALSE, csv |-> FALSE],
     fs |-> [k \in Locs |-> "absent"], k |-> 1, checks |-> <<>>, es_cmd |-> 0,
     cmd |-> <<>>, expected |-> <<>>, ran |-> 0, returncode |-> 0,
     stdout |-> <<>>, stderr |-> "", records |-> <<>>, out |-> NoOutput,
     code |-> 0, exc |-> "", message |-> <<>>]

\* sys.exit(message): exit status 1, the message goes to stderr
SysExit(e, message) ==
    [e EXCEPT !.pc = "exit", !.code = 1, !.exc = "SystemExit", !.message = message]

\* an exception nothing catches: traceback, exit status 1
Uncaught(e, exc) == [e EXCEPT !.pc = "exit", !.code = 1, !.exc = exc]

\* sys.exit(0), or main returning
ExitOk(e, out) == [e EXCEPT !.pc = "exit", !.code = 0, !.out = out]

EsUnchanged == UNCHANGED <<dll, th, calls, faults, serialized, lock, ft, dt, csv, http, ev, diag>>

\* locate_es: one of its "if not es_cmd" blocks
Probe ==
    /\ es.pc = "locate"
    /\ LET found == FoundAt(es.fs, es.k)
           to    == AfterProbe(es.k, found)
           e1    == [es EXCEPT !.checks = @ \o ChecksOf(es.fs, es.k),
                               !.es_cmd = IF found THEN es.k ELSE @,
                               !.k = @ + 1]
       IN  es' = IF to = "locate" THEN e1
                 ELSE IF to = "not found" THEN SysExit(e1, <<NotFoundMessage>>)
                 ELSE IF es.args.locate
                      THEN ExitOk(e1, [NoOutput EXCEPT !.kind = "es_cmd"])
                 ELSE [e1 EXCEPT !.pc = IF es.args.es_help THEN "help" ELSE "config"]
    /\ EsUnchanged

\* main, --es-help: subprocess.run([es_cmd, "--help"]) and print its output
RunHelp ==
    /\ es.pc = "help"
    /\ \E o \in {"ok", "OSError"} :
          LET e1 == [es EXCEPT !.ran = @ + 1, !.cmd = <<"--help">>]
          IN  es' = IF o = "ok" THEN ExitOk(e1, [NoOutput EXCEPT !.kind = "help"])
                    ELSE SysExit(e1, <<"Error invoking es.exe --help: ", o>>)
    /\ EsUnchanged

\* main: the --search test, build_field_config and the command line
BuildCommand ==
    /\ es.pc = "config"
    /\ LET cfg == build_field_config(es.args.all_fields)
       IN  es' = IF es.args.search = <<>>
                 THEN SysExit(es, <<"Error: --search is required.">>)
                 ELSE IF ~Unpacks(cfg) THEN Uncaught(es, "TypeError")
                 ELSE [es EXCEPT !.pc = "run",
                                 !.cmd = CommandLine(es.args, cfg[1]),
                                 !.expected = Expected(es.args, cfg[2])]
    /\ EsUnchanged

\* main: subprocess.run(cmd, capture_output=True, text=True, check=True), then
\* parse_csv_text(result.stdout, expected) in the CSV branch
RunEs ==
    /\ es.pc = "run"
    /\ \E o \in {"rows", "header and rows", "failure", "OSError"} :
          LET rc     == IF o = "failure" THEN 1 ELSE 0
              stdout == IF rc = 0 THEN EsExe(es.cmd, o = "header and rows") ELSE <<>>
              stderr == IF rc = 0 THEN "" ELSE EsStderr
              e1     == [es EXCEPT !.ran = @ + 1, !.returncode = rc,
                                   !.stdout = stdout, !.stderr = stderr]
              csvrun == es.args.csv \/ es.args.json
          IN  es' = IF o = "OSError" THEN Uncaught([es EXCEPT !.ran = @ + 1], "OSError")
                    ELSE IF RaisesCalledProcessError(rc)
                    THEN SysExit(e1, << IF csvrun THEN "Error exporting CSV: "
                                        ELSE "Error running es.exe: ", stderr >>)
                    ELSE [e1 EXCEPT !.pc = "output",
                                    !.records = IF csvrun
                                                THEN parse_csv_text(stdout, es.expected)
                                                ELSE <<>>]
    /\ EsUnchanged

\* main: what it writes to stdout after a run that did not raise
Output ==
    /\ es.pc = "output"
    /\ es' = IF ~(es.args.csv \/ es.args.json)
             THEN IF es.stdout # <<>>
                  THEN ExitOk(es, [NoOutput EXCEPT
                                  !.kind = "text",
                                  !.lines = [j \in 1..Len(es.stdout) |-> es.stdout[j][1]]])
                  ELSE ExitOk(es, [NoOutput EXCEPT !.kind = "message",
                                                   !.text = "No results found."])
             ELSE IF es.args.json
                  THEN ExitOk(es, [NoOutput EXCEPT !.kind = "json", !.records = es.records])
             ELSE IF es.records = <<>>
                  THEN ExitOk(es, [NoOutput EXCEPT !.kind = "message",
                                                   !.text = "No results found."])
             ELSE IF es.args.all_fields
                  THEN ExitOk(es, [NoOutput EXCEPT !.kind = "fields", !.records = es.records])
             ELSE ExitOk(es, [NoOutput EXCEPT
                                 !.kind = "paths",
                                 !.lines = [j \in 1..Len(es.records) |-> es.records[j]["path"]]])
    /\ EsUnchanged

EsMain == Probe \/ RunHelp \/ BuildCommand \/ RunEs \/ Output

(***************************************************************************)
(* HTTP adapter: everything_file_list                                      *)
(*                                                                         *)
(* An optional value (an argparse default of None, an unset environment    *)
(* variable) is None when absent and <<v>> when present.                   *)
(***************************************************************************)
\* int(text) for the texts the environment holds here; ValueError is None
IntParse(text) ==
    CASE text = "8888" -> <<8888>>
      [] text = "0" -> <<0>>
      [] OTHER -> None

\* os.getenv("EVERYTHING_PORT", "")
GetenvPort(env) == IF env.port = None THEN "" ELSE env.port[1]

\* host = args.host or os.getenv("EVERYTHING_HOST") or "127.0.0.1"
ResolveHost(args, env) ==
    IF args.host # None /\ args.host[1] # "" THEN args.host[1]
    ELSE IF env.host # None /\ env.host[1] # "" THEN env.host[1]
    ELSE "127.0.0.1"

\* variant: a value that is no integer is passed over, like an unset one
ResolvePortLenient(args, env) ==
    IF args.port # None /\ args.port[1] # 0 THEN args.port
    ELSE IF IntParse(GetenvPort(env)) \in {None, <<0>>} THEN <<80>>
    ELSE IntParse(GetenvPort(env))

\* port = args.port or int(os.getenv("EVERYTHING_PORT", "")) or 80; None: ValueError
ResolvePort(args, env) ==
    IF args.port # None /\ args.port[1] # 0 THEN args.port
    ELSE IF IntParse(GetenvPort(env)) = None THEN None
    ELSE IF IntParse(GetenvPort(env))[1] # 0 THEN IntParse(GetenvPort(env))
    ELSE <<80>>

BASIC_COLUMNS == {"file_name_column", "path_column", "size_column"}

ALL_COLUMNS ==
    { "file_name_column", "path_column", "full_path_column", "size_column",
      "extension_column", "date_created_column", "date_modified_column",
      "date_accessed_column", "attributes_column", "file_list_file_name_column",
      "run_count_column", "date_run_column", "date_recently_changed_column",
      "highlighted_file_name_column", "highlighted_path_column",
      "highlighted_full_path_column" }

\* the query of --test
HostsQuery == "C:\\Windows\\System32\\drivers\\etc\\hosts"

\* params of the request main sends
Params(args) ==
    [search  |-> IF args.test THEN HostsQuery ELSE args.search,
     offset  |-> IF args.test THEN 0 ELSE args.offset,
     count   |-> IF args.test THEN 1 ELSE args.count,
     json    |-> 1,
     columns |-> IF args.all_fields THEN ALL_COLUMNS ELSE BASIC_COLUMNS]

\* the HTTP server: the "results" array it answers a request with
HttpResults(params) ==
    LET all  == IF params.search = HostsQuery THEN <<1>> ELSE Matching(params.search, TRUE)
        hits == Window(all, params.offset, params.count)
    IN  [j \in 1..Len(hits) |->
            [name |-> basename(Index[hits[j]].full_path),
             path |-> dirname(Index[hits[j]].full_path),
             size |-> Index[hits[j]].size]]

HttpSearches == {"", "C:", "nomatch"}

HttpArgs ==
    [host : {None, <<"example.org">>}, port : {None, <<0>>, <<8080>>},
     search : HttpSearches, offset : 0..MaxOffset, count : 0..MaxCount,
     all_fields : BOOLEAN, json : BOOLEAN, test : BOOLEAN]

HttpEnvs ==
    [host : {None, <<"localhost">>}, port : {None, <<"8888">>, <<"0">>, <<"abc">>}]

IdleHttp ==
    [pc |-> "idle",
     args |-> [host |-> None, port |-> None, search |-> "", offset |-> 0, count |-> 0,
               all_fields |-> FALSE, json |-> FALSE, test |-> FALSE],
     env |-> [host |-> None, port |-> None],
     host |-> "", port |-> 0, requests |-> <<>>, reply |-> "", results |-> <<>>,
     out |-> NoOutput, code |-> 0, exc |-> "", message |-> <<>>]

HttpUnchanged == UNCHANGED <<dll, th, calls, faults, serialized, lock, ft, dt, csv, es, ev, diag>>

\* main: host and port resolution, then the --search test of the normal search
Resolve ==
    /\ http.pc = "resolve"
    /\ LET host == ResolveHost(http.args, http.env)
           port == ResolvePort(http.args, http.env)
       IN  http' =
             IF port = None
             THEN SysExit(http, <<"Invalid port number in EVERYTHING_PORT environment variable.">>)
             ELSE IF ~http.args.test /\ http.args.search = ""
             THEN SysExit([http EXCEPT !.host = host, !.port = port[1]],
                          <<"Error: --search is required unless --test is specified.">>)
             ELSE [http EXCEPT !.pc = "request", !.host = host, !.port = port[1]]
    /\ HttpUnchanged

\* what the server does with a request: it answers with JSON, cannot be
\* reached, answers with a status that is not 2xx, or with a body that is no JSON
HttpReplies == {"ok", "ConnectionError", "HTTPError", "JSONDecodeError"}

\* variant: a body that is no JSON is read as an answer without results
AfterRequestLenient(h, reply, caught) ==
    IF reply \in {"ConnectionError", "HTTPError"}
    THEN SysExit(h, << IF h.args.test THEN "Test failed: could not connect: "
                       ELSE "Error: could not connect: ", reply >>)
    ELSE IF reply = "JSONDecodeError" THEN [h EXCEPT !.pc = "respond", !.results = <<>>]
    ELSE [h EXCEPT !.pc = "respond", !.results = HttpResults(Params(h.args))]

\* main after requests.get: raise_for_status and .json().  --test reads the
\* body inside the try, the normal search after it; caught says whether the
\* installed requests raises its JSONDecodeError as a RequestException
AfterRequest(h, reply, caught) ==
    IF reply \in {"ConnectionError", "HTTPError"}
    THEN SysExit(h, << IF h.args.test THEN "Test failed: could not connect: "
                       ELSE "Error: could not connect: ", reply >>)
    ELSE IF reply = "JSONDecodeError"
    THEN IF h.args.test /\ caught
         THEN SysExit(h, <<"Test failed: could not connect: ", reply>>)
         ELSE Uncaught(h, reply)
    ELSE [h EXCEPT !.pc = "respond", !.results = HttpResults(Params(h.args))]

\* main: requests.get(base_url, params=params), raise_for_status and .json()
Request ==
    /\ http.pc = "request"
    /\ \E reply \in HttpReplies, caught \in BOOLEAN :
          http' = AfterRequest([http EXCEPT !.reply = reply,
                                            !.requests = Append(@, [host |-> http.host,
                                                                    port |-> http.port,
                                                                    params |-> Params(http.args)])],
                               reply, caught)
    /\ HttpUnchanged

\* main: the outcome of --test, or the printed results of a normal search
Respond ==
    /\ http.pc = "respond"
    /\ http' =
          IF http.args.test
          THEN IF http.results = <<>>
               THEN SysExit(http, <<"Test failed: no results for hosts file.">>)
               ELSE IF http.results[1].size > 1
               THEN ExitOk(http, [NoOutput EXCEPT
                                     !.kind = IF http.args.json THEN "json" ELSE "message",
                                     !.text = "Test passed",
                                     !.records = << [passed |-> TRUE,
                                                     size |-> http.results[1].size] >>])
               ELSE SysExit(http, <<"Test failed: hosts file size is not > 1.">>)
          ELSE IF http.results = <<>>
               THEN ExitOk(http, [NoOutput EXCEPT !.kind = "message",
                                                  !.text = "No results found."])
          ELSE ExitOk(http, [NoOutput EXCEPT
                                !.kind = IF http.args.json THEN "json" ELSE "fields",
                                !.records = http.results])
    /\ HttpUnchanged

HttpMain == Resolve \/ Request \/ Respond

(***************************************************************************)
(* Specifications                                                          *)
(***************************************************************************)
InitAdapter ==
    /\ dll = DllDefaults
    /\ th = [t \in Threads |-> IdleThread]
    /\ calls = [t \in Threads |-> 0]
    /\ faults = 0
    /\ lock = 0
    /\ ft = FTZero
    /\ dt = [done |-> TRUE, value |-> None]
    /\ csv = IdleCsv
    /\ es = IdleEs
    /\ http = IdleHttp
    /\ ev = IdleEv
    /\ diag = IdleDiag

\* one caller: search calls follow one another
Init == InitAdapter /\ serialized = TRUE

Next == \E t \in {1} : Call(t, SerialArgs, MaxCalls) \/ Step(t)

Spec == Init /\ [][Next]_vars

\* two callers on the same binding, with or without an external mutex; the
\* provider produces no getter faults here, and each caller makes one call
ConcQueries == {"etc", "file.txt"}

\* caller 1 goes through EverythingDLL.search, caller 2 through dll.run_search
ConcArgs(t) ==
    [api : {IF t = 1 THEN "EverythingDLL" ELSE "run_search"}, query : ConcQueries,
     offset : {0, 1}, count : {0, 1}, all_fields : BOOLEAN]

InitConc ==
    /\ dll = DllDefaults
    /\ th = [t \in Threads |-> IdleThread]
    /\ calls = [t \in Threads |-> 0]
    /\ faults = MaxFaults
    /\ lock = 0
    /\ ft = FTZero
    /\ dt = [done |-> TRUE, value |-> None]
    /\ csv = IdleCsv
    /\ es = IdleEs
    /\ http = IdleHttp
    /\ ev = IdleEv
    /\ diag = IdleDiag
    /\ serialized \in BOOLEAN

NextConc == \E t \in Threads : Call(t, ConcArgs(t), 1) \/ StepDll(t)

SpecConc == InitConc /\ [][NextConc]_vars

(***************************************************************************)
(* The codec on its own: decode one FILETIME                               *)
(***************************************************************************)
FtHighs ==
    { <<0, 0>>, <<0, 1>>, <<465, 63960>>, <<474, 15429>>, <<9416, 23134>>,
      <<9416, 23135>>, <<32767, 65535>>, <<65535, 65535>> }

FtLows ==
    { <<0, 0>>, <<0, 1>>, <<0, 9>>, <<0, 10>>, <<30345, 49152>>, <<43950, 53760>>,
      <<53696, 16383>>, <<53696, 16384>>, <<65535, 65535>> }

InitFT ==
    /\ dll = DllDefaults
    /\ th = [t \in Threads |-> IdleThread]
    /\ calls = [t \in Threads |-> 0]
    /\ faults = 0
    /\ lock = 0
    /\ serialized = TRUE
    /\ ft \in [dwHighDateTime : FtHighs, dwLowDateTime : FtLows]
    /\ dt = [done |-> FALSE, value |-> None]
    /\ csv = IdleCsv
    /\ es = IdleEs
    /\ http = IdleHttp
    /\ ev = IdleEv
    /\ diag = IdleDiag

\* dt = filetime_to_dt(ft)
Decode ==
    /\ ~dt.done
    /\ dt' = [done |-> TRUE, value |-> filetime_to_dt(ft)]
    /\ UNCHANGED <<dll, th, calls, faults, serialized, lock, ft, csv, es, http, ev, diag>>

NextFT == Decode

SpecFT == InitFT /\ [][NextFT]_vars

(***************************************************************************)
(* The parser, the es.exe adapter and the HTTP adapter on their own        *)
(***************************************************************************)
\* the binary-call adapter and the codec at rest
IdleBinding ==
    /\ dll = DllDefaults
    /\ th = [t \in Threads |-> IdleThread]
    /\ calls = [t \in Threads |-> 0]
    /\ faults = 0
    /\ lock = 0
    /\ serialized = TRUE
    /\ ft = FTZero
    /\ dt = [done |-> TRUE, value |-> None]

\* first rows: headers as es.exe writes them, headers in other spellings, data
CsvFirstRows ==
    { << <<"Name">>, <<"Path">>, <<"Size">> >>,
      << <<"name">>, <<"path">>, <<"size">> >>,
      << <<"Name">>, <<"Type">>, <<"Path">> >>,
      << <<"name">>, <<"DATE MODIFIED">> >>,
      << <<"DateModified">>, <<"PATH">> >>,
      EfuHeader,
      << <<"hosts">>, <<"C:", "Windows", "System32", "drivers", "etc">>, <<"959">> >>,
      << <<"file.txt">>, <<"C:", "Temp">>, <<"128">> >> }

CsvDataRows ==
    { << <<"hosts">>, <<"C:", "Windows", "System32", "drivers", "etc">>, <<"959">> >>,
      << <<"file.txt">>, <<"C:", "Temp">>, <<"128">> >>,
      << <<"file.txt">>, <<"Temp">>, <<"128">> >>,
      << <<"file.txt">>, <<"C:/Temp">>, <<"128">>, <<"txt">> >>,
      << <<"hosts">> >>,
      << >> }

\* the sequences over S of length at most n
RECURSIVE SeqsUpTo(_, _)
SeqsUpTo(S, n) ==
    IF n = 0 THEN {<<>>}
    ELSE LET shorter == SeqsUpTo(S, n - 1)
         IN  shorter \cup {Append(q, x) : q \in shorter, x \in S}

CsvTexts ==
    {<<>>} \cup {<<first>> \o rest : first \in CsvFirstRows,
                                     rest \in SeqsUpTo(CsvDataRows, MaxRows)}

InitCsv ==
    /\ IdleBinding
    /\ csv \in [rows : CsvTexts, field_names : {BasicNames, EfuExpected},
                done : {FALSE}, records : {<<>>}]
    /\ es = IdleEs
    /\ http = IdleHttp
    /\ ev = IdleEv
    /\ diag = IdleDiag

SpecCsv == InitCsv /\ [][ParseCsv]_vars

\* es main: es.exe is on PATH or nowhere, every combination of options
EsSearches == {<<>>, <<"*">>, <<"hosts">>, <<"nomatch">>}

EsFileSystems ==
    { [k \in Locs |-> IF k = 1 THEN s ELSE "absent"] : s \in {"absent", "exec"} }

InitEs ==
    /\ IdleBinding
    /\ csv = IdleCsv
    /\ \E a \in EsArgs(EsSearches, 0..MaxOffset, 0..MaxCount), f \in EsFileSystems :
          es = [IdleEs EXCEPT !.pc = "locate", !.args = a, !.fs = f]
    /\ http = IdleHttp
    /\ ev = IdleEv
    /\ diag = IdleDiag

SpecEs == InitEs /\ [][EsMain]_vars

\* es main over every filesystem: shutil.which finds executables only, the
\* install locations are tested with os.path.isfile alone
LocateFileSystems ==
    { f \in [Locs -> FileStates] :
         /\ f[1] # "file"
         /\ \A k \in Locs \ ({1} \cup AccessLocs) : f[k] # "exec" }

InitLocate ==
    /\ IdleBinding
    /\ csv = IdleCsv
    /\ \E a \in EsArgs({<<>>, <<"hosts">>}, {0}, {1}), f \in LocateFileSystems :
          /\ ~a.all_fields /\ ~a.csv
          /\ es = [IdleEs EXCEPT !.pc = "locate", !.args = a, !.fs = f]
    /\ http = IdleHttp
    /\ ev = IdleEv
    /\ diag = IdleDiag

SpecLocate == InitLocate /\ [][EsMain]_vars

InitHttp ==
    /\ IdleBinding
    /\ csv = IdleCsv
    /\ es = IdleEs
    /\ ev = IdleEv
    /\ diag = IdleDiag
    /\ \E a \in HttpArgs, e \in HttpEnvs :
          http = [IdleHttp EXCEPT !.pc = "resolve", !.args = a, !.env = e]

SpecHttp == InitHttp /\ [][HttpMain]_vars

(***************************************************************************)
(* One Everything object: setter calls and searches of one caller          *)
(***************************************************************************)
\* "ETC" matches the hosts file unless letter case must match; "C:" matches
\* every file of the index
EvArgs ==
    { [api |-> "Everything", query |-> "ETC", offset |-> 0, count |-> 0,
       all_fields |-> TRUE],
      [api |-> "Everything", query |-> "C:", offset |-> 0, count |-> 0,
       all_fields |-> FALSE],
      [api |-> "Everything", query |-> "C:", offset |-> 0, count |-> 2,
       all_fields |-> FALSE] }

\* the provider produces no getter faults here; Everything_QueryW may fail
InitEv ==
    /\ dll = DllDefaults
    /\ th = [t \in Threads |-> IdleThread]
    /\ calls = [t \in Threads |-> 0]
    /\ faults = MaxFaults
    /\ lock = 0
    /\ serialized = TRUE
    /\ ft = FTZero
    /\ dt = [done |-> TRUE, value |-> None]
    /\ csv = IdleCsv
    /\ es = IdleEs
    /\ http = IdleHttp
    /\ ev = IdleEv
    /\ diag = IdleDiag

NextEv == \E t \in {1} : Call(t, EvArgs, MaxCalls) \/ Step(t) \/ SetMode(t)

SpecEv == InitEv /\ [][NextEv]_vars

(***************************************************************************)
(* Command line entry points of pyeverything.dll and pyeverything.dll_class*)
(*                                                                         *)
(* One search call of main is one step: the provider's answer to it (the   *)
(* records run_search / EverythingDLL.search return for it, or the         *)
(* exception that leaves the call) is an input of the step. A Python bool  *)
(* or None in stdout's JSON keeps its place; stdout is the sequence of the *)
(* writes made to it.                                                      *)
(***************************************************************************)
\* number of records in one answer of the provider
MaxHits == 2

\* hostfile of dll.main: r"C:\Windows\System32\drivers\etc\hosts"
HostfileDll == HostsPath

\* hostfile of dll_class.main: r"C:\\Windows\\System32\\drivers\\etc\\hosts", a
\* raw string, so every separator is two backslashes (an empty component)
HostfileClass ==
    <<"C:", "", "Windows", "", "System32", "", "drivers", "", "etc", "", "hosts">>

Hostfile(api) == IF api = "dll" THEN HostfileDll ELSE HostfileClass

\* queries of the diagnostic, by formulation: dll.main has one, dll_class.main
\* three (the exact path, a path-scoped token query, the bag of path segments;
\* the last two are kept as one piece of text each)
TestQueries(api) ==
    IF api = "dll" THEN <<HostfileDll>>
    ELSE <<HostfileClass,
           <<"path:\"\\\\\\\\windows\\\\\\\\system32\\\\\\\\drivers\\\\\\\\etc\" hosts">>,
           <<"windows system32 drivers etc hosts">>>>

\* the count argument of the diagnostic's searches
TestCount(api) == IF api = "dll" THEN 10 ELSE 50

\* s.lower() of a text
LowerText(s) == [j \in 1..Len(s) |-> lower(s[j])]

\* s.replace("/", "\\") of one component: the components it becomes
SlashSplit(a) ==
    CASE a = "d:/windows/system32/drivers/etc/hosts" ->
             <<"d:", "windows", "system32", "drivers", "etc", "hosts">>
      [] a = "D:/Windows/System32/drivers/etc/hosts" ->
             <<"D:", "Windows", "System32", "drivers", "etc", "hosts">>
      [] OTHER -> <<a>>

RECURSIVE ReplaceSlash(_)
ReplaceSlash(s) ==
    IF s = <<>> THEN <<>> ELSE SlashSplit(Head(s)) \o ReplaceSlash(Tail(s))

\* a.startswith(b), a.endswith(b), b in a for components of the model's texts
AtomStartsWith(a, b) == b = "" \/ a = b \/ (a = "hosts.bak" /\ b = "hosts")
AtomEndsWith(a, b) == b = "" \/ a = b
AtomContains(a, b) == AtomStartsWith(a, b) \/ AtomEndsWith(a, b)

\* canon in p: the text canon occurs in the text p
Contains(p, canon) ==
    LET n == Len(canon)
    IN  IF n = 0 THEN TRUE
        ELSE IF n = 1 THEN \E q \in 1..Len(p) : AtomContains(p[q], canon[1])
        ELSE \E q \in 1..(Len(p) - n + 1) :
                /\ AtomEndsWith(p[q], canon[1])
                /\ \A j \in 2..(n - 1) : p[q + j - 1] = canon[j]
                /\ AtomStartsWith(p[q + n - 1], canon[n])

\* next((e for e in results if e["path"].lower() == hostfile.lower()), None):
\* the position of the match, 0 for None
ExactMatch(results, hostfile) ==
    LET hits == {j \in 1..Len(results) :
                    LowerText(results[j].path) = LowerText(hostfile)}
    IN  IF hits = {} THEN 0 ELSE CHOOSE j \in hits : \A k \in hits : j <= k

\* for e in results: p = ...lower().replace("/", "\\"); if canon in p: match = e; break
RelaxedMatch(results, hostfile) ==
    LET canon == ReplaceSlash(LowerText(hostfile))
        hits  == {j \in 1..Len(results) :
                     Contains(ReplaceSlash(LowerText(results[j].path)), canon)}
    IN  IF hits = {} THEN 0 ELSE CHOOSE j \in hits : \A k \in hits : j <= k

\* variant: the first record is taken, whatever its path
FindMatchFirst(api, results) == IF results = <<>> THEN 0 ELSE 1

\* the record main checks: dll.py:364, dll_class.py:570-580
FindMatch(api, results) ==
    LET exact == ExactMatch(results, Hostfile(api))
    IN  IF exact # 0 \/ api = "dll" THEN exact
        ELSE RelaxedMatch(results, Hostfile(api))

\* actual = os.path.getsize(hostfile) if os.path.isfile(hostfile) else 0
ActualSize(fs) == IF fs = None THEN 0 ELSE fs[1]

\* if size == 0: the out-of-band check is made
ConsultsFilesystem(size) == size = 0

\* if actual > 1: warning and exit code 0
Warns(actual) == actual > 1

\* one write to stdout
Written(kind, json, size, records) ==
    [kind |-> kind, json |-> json, size |-> size, records |-> records]

\* the DEBUG_DLL lines dll.run_search prints for each result, three per result
RECURSIVE DebugLines(_)
DebugLines(n) ==
    IF n = 0 THEN <<>>
    ELSE <<Written("DEBUG_DLL", FALSE, 0, <<>>), Written("DEBUG_DLL", FALSE, 0, <<>>),
           Written("DEBUG_DLL", FALSE, 0, <<>>)>> \o DebugLines(n - 1)

\* what one search call writes to stdout
SearchWrites(api, results) == IF api = "dll" THEN DebugLines(Len(results)) ELSE <<>>

\* print(json.dumps(results, ...)) / for entry in results: print("\t".join(...))
ResultWrites(json, results) ==
    IF json THEN <<Written("array", TRUE, 0, results)>>
    ELSE [j \in 1..Len(results) |-> Written("line", FALSE, 0, <<results[j]>>)]

\* sys.exit(message): exit code 1, the message goes to stderr
DiagExit(d, message) ==
    [d EXCEPT !.pc = "exit", !.code = 1, !.exc = "SystemExit", !.message = message]

\* main returns, or sys.exit(0)
DiagOk(d, writes) == [d EXCEPT !.pc = "exit", !.code = 0, !.out = d.out \o writes]

\* how a failed search leaves main: run_search exits by itself on a failed
\* query and lets a getter's exception through; dll_class.main turns every
\* exception of EverythingDLL.search into sys.exit(str(e))
SearchFailure(d, fault) ==
    IF d.api = "dll_class"
    THEN DiagExit(d, IF fault = "query" THEN "Error: Everything query failed."
                     ELSE "getter failed")
    ELSE IF fault = "query" THEN DiagExit(d, "Error: Everything query failed.")
    ELSE [d EXCEPT !.pc = "exit", !.code = 1, !.exc = "OSError"]

DiagUnchanged ==
    UNCHANGED <<dll, th, calls, faults, serialized, lock, ft, dt, csv, es, http, ev>>

\* args = parse_args(); load the DLL and bind its functions; dispatch on the mode
Load ==
    /\ diag.pc = "start"
    /\ \E loaded \in BOOLEAN :
          diag' = IF ~loaded THEN DiagExit(diag, "Error: Could not load Everything64.dll")
                  ELSE IF diag.args.test THEN [diag EXCEPT !.pc = "test"]
                  ELSE IF diag.args.search = None
                  THEN DiagExit(diag, "Error: --search is required unless --test is specified.")
                  ELSE [diag EXCEPT !.pc = "search"]
    /\ DiagUnchanged

\* the records a provider may answer with
DiagRecords ==
    { [name |-> <<"hosts">>, path |-> HostsPath, size |-> 959],
      [name |-> <<"hosts">>, path |-> HostsPath, size |-> 0],
      [name |-> <<"HOSTS">>, size |-> 959,
       path |-> <<"C:", "WINDOWS", "SYSTEM32", "DRIVERS", "ETC", "HOSTS">>],
      [name |-> <<"hosts">>, path |-> <<"D:/Windows/System32/drivers/etc/hosts">>,
       size |-> 1],
      [name |-> <<"hosts.bak">>, size |-> 5,
       path |-> <<"C:", "Windows", "System32", "drivers", "etc", "hosts.bak">>],
      [name |-> <<"file.txt">>, path |-> <<"C:", "Temp", "file.txt">>, size |-> 128] }

DiagAnswers == SeqsUpTo(DiagRecords, MaxHits)

\* the ways a search call ends: with records, with a failed query, with a
\* getter that raises
SearchOutcomes == {"records", "query", "getter"}

Searched(d, query, count, answer) ==
    Append(d.searched, [query |-> query, count |-> count, n |-> Len(answer)])

\* variant: the loop over the queries has no break
AfterTestSearchNoBreak(answer, k, n) == IF k = n THEN "verdict" ELSE "test"

\* "if results: break", or the end of the list of queries: on to the checks
AfterTestSearch(answer, k, n) == IF answer # <<>> \/ k = n THEN "verdict" ELSE "test"

\* results = run_search(dll, hostfile, 0, 10, ...) in dll.main;
\* one turn of "for q in queries: results = client.search(q, 0, 50, ...);
\* if results: break" in dll_class.main
TestSearch ==
    /\ diag.pc = "test"
    /\ LET k  == Len(diag.searched) + 1
           qs == TestQueries(diag.api)
       IN  \E o \in SearchOutcomes, answer \in DiagAnswers :
              LET d == [diag EXCEPT !.searched =
                           Searched(diag, qs[k], TestCount(diag.api),
                                    IF o = "records" THEN answer ELSE <<>>)]
              IN  diag' =
                    IF o # "records" THEN SearchFailure(d, o)
                    ELSE [d EXCEPT !.results = answer,
                                   !.out = d.out \o SearchWrites(d.api, answer),
                                   !.pc = AfterTestSearch(answer, k, Len(qs))]
    /\ DiagUnchanged

\* the checks of test mode after the searches: dll.py:362-381, dll_class.py:567-598
Verdict ==
    /\ diag.pc = "verdict"
    /\ LET m    == FindMatch(diag.api, diag.results)
           size == diag.results[m].size
           d    == [diag EXCEPT !.fschecks = diag.fschecks + 1]
       IN  diag' =
             IF diag.results = <<>>
             THEN DiagExit(diag, "Test failed: no search results returned for hosts file.")
             ELSE IF m = 0
             THEN DiagExit(diag, "Test failed: hosts file not found among search results.")
             ELSE IF ConsultsFilesystem(size)
             THEN IF Warns(ActualSize(diag.fs))
                  THEN DiagOk(d, <<Written("warning", diag.args.json,
                                           ActualSize(diag.fs), <<>>)>>)
                  ELSE DiagExit(d, "Test failed: hosts file size is zero both in index and on disk.")
             ELSE DiagOk(diag, <<Written("passed", diag.args.json, size, <<>>)>>)
    /\ DiagUnchanged

\* normal mode: results = run_search(...) / client.search(...), then the output
NormalSearch ==
    /\ diag.pc = "search"
    /\ \E o \in SearchOutcomes, answer \in DiagAnswers :
          LET d == [diag EXCEPT !.searched =
                       Searched(diag, diag.args.search[1], 0,
                                IF o = "records" THEN answer ELSE <<>>)]
          IN  diag' =
                IF o # "records" THEN SearchFailure(d, o)
                ELSE DiagOk([d EXCEPT !.results = answer],
                            SearchWrites(d.api, answer)
                                \o ResultWrites(d.args.json, answer))
    /\ DiagUnchanged

DiagMain == Load \/ TestSearch \/ Verdict \/ NormalSearch

InitDiag ==
    /\ dll = DllDefaults
    /\ th = [t \in Threads |-> IdleThread]
    /\ calls = [t \in Threads |-> 0]
    /\ faults = 0
    /\ lock = 0
    /\ serialized = TRUE
    /\ ft = FTZero
    /\ dt = [done |-> TRUE, value |-> None]
    /\ csv = IdleCsv
    /\ es = IdleEs
    /\ http = IdleHttp
    /\ ev = IdleEv
    /\ \E api \in {"dll", "dll_class"}, test, json \in BOOLEAN,
          search \in {None, <<<<"C:">>>>}, fs \in {None, <<0>>, <<1>>, <<1024>>} :
          diag = [IdleDiag EXCEPT !.pc = "start", !.api = api, !.fs = fs,
                                  !.args = [test |-> test, json |-> json,
                                            search |-> search]]

SpecDiag == InitDiag /\ [][DiagMain]_vars

(***************************************************************************)
(* C10: the timestamp codec                                                *)
(***************************************************************************)
\* x * m + a on big-endian limbs (m and a small), same number of limbs
RECURSIVE MulAddFrom(_, _, _, _)
MulAddFrom(x, m, pos, carry) ==
    IF pos = 0 THEN <<>>
    ELSE LET cur == x[pos] * m + carry
         IN  MulAddFrom(x, m, pos - 1, cur \div LimbBase) \o <<cur % LimbBase>>

MulAdd(x, m, a) == MulAddFrom(x, m, Len(x), a)

IsLeapYear(y) == y % 4 = 0 /\ (y % 100 # 0 \/ y % 400 = 0)

\* days from 1601-01-01 to the calendar date y-m-d
DaysSince1601(y, m, d) ==
    LET py == y - 1
    IN  py * 365 + py \div 4 - py \div 100 + py \div 400
        + DaysBeforeMonth[m] + (IF m > 2 /\ IsLeapYear(y) THEN 1 ELSE 0) + d
        - EpochOrdinal

\* the microseconds between 1601-01-01T00:00:00 and the instant v, as four limbs
MicrosSince1601(v) ==
    LET days == DaysSince1601(v[1], v[2], v[3])
        d0   == <<0, 0, days \div LimbBase, days % LimbBase>>
        hrs  == MulAdd(d0, 24, v[4])
        mins == MulAdd(hrs, 60, v[5])
        secs == MulAdd(mins, 60, v[6])
        ms   == MulAdd(secs, 1000, v[7] \div 1000)
    IN  MulAdd(ms, 1000, v[7] % 1000)

IsCalendarInstant(v) ==
    /\ Len(v) = 7
    /\ v[1] \in 1601..9999 /\ v[2] \in 1..12
    /\ v[3] \in 1..(DaysInMonth[v[2]] + (IF v[2] = 2 /\ IsLeapYear(v[1]) THEN 1 ELSE 0))
    /\ v[4] \in 0..23 /\ v[5] \in 0..59 /\ v[6] \in 0..59 /\ v[7] \in 0..999999

\* lexicographic comparison of two limb numbers of the same length
LimbsGreater(x, y) ==
    \E p \in 1..Len(x) : x[p] > y[p] /\ \A q \in 1..(p - 1) : x[q] = y[q]

\* the last tick count whose instant is 9999-12-31T23:59:59.999999
LastTicks == <<9416, 23134, 53696, 16383>>

Setters == {"SetSearchW", "SetMatchPath", "SetRequestFlags", "SetOffset", "SetMax"}

ResultGetters ==
    {"GetResultFullPathNameW", "GetResultSize"} \cup {ExtGetters[k] : k \in 1..Len(ExtGetters)}

Positions(log, fns) == {p \in 1..Len(log) : log[p].fn \in fns}

\* the configuration a call asks for through its own arguments
OwnConfig(c) ==
    [search |-> c.query, matchPath |-> TRUE, flags |-> RequestFlags(c.all_fields),
     offset |-> c.offset, max |-> c.count]

\* the record a fault-free drain builds for index entry n
RecordOf(n, all_fields) ==
    LET e   == Index[n]
        cur == [path |-> e.full_path, size |-> e.size, name |-> basename(e.full_path),
                ext |-> e.extension, dc |-> filetime_to_dt(e.date_created),
                dm |-> filetime_to_dt(e.date_modified),
                da |-> filetime_to_dt(e.date_accessed), attr |-> e.attributes,
                flfn |-> e.file_list_file_name, rc |-> e.run_count,
                dr |-> filetime_to_dt(e.date_run),
                drc |-> filetime_to_dt(e.date_recently_changed),
                hfn |-> e.highlighted_file_name, hp |-> e.highlighted_path,
                hfp |-> e.highlighted_full_path]
    IN  IF all_fields THEN ExtendedRecord(cur) ELSE BasicRecord(cur)

RecordsOf(ns, all_fields) == [j \in 1..Len(ns) |-> RecordOf(ns[j], all_fields)]

\* C1: when Everything_QueryW reports failure the call aborts (SystemExit in
\* run_search and Everything.search, RuntimeError in EverythingDLL.search), no
\* list is returned, and no provider call follows the failed query.
C1_QueryFailureAborts ==
    \A t \in Threads :
        th[t].qok = "failed" =>
            /\ th[t].pc = "aborted"
            /\ th[t].outcome \in {"SystemExit", "RuntimeError"}
            /\ (th[t].outcome = "RuntimeError") <=> (th[t].api = "EverythingDLL")
            /\ th[t].results = <<>>
            /\ th[t].log[Len(th[t].log)].fn = "QueryW"
            /\ Positions(th[t].log, ResultGetters \cup {"GetNumResults"}) = {}

C1_Witness ==
    \E t \in Threads :
        /\ th[t].qok = "failed"
        /\ th[t].api = "EverythingDLL"
        /\ th[t].outcome = "RuntimeError"

\* C2: a basic-mode search with count = N > 0 that returns, returns at most N
\* records, each with exactly the keys name, path and size, and size >= 0.
C2_AtMostCountRecords ==
    \A t \in Threads :
        (th[t].pc = "done" /\ ~th[t].all_fields /\ th[t].count > 0) =>
            /\ Len(th[t].results) <= th[t].count
            /\ \A j \in 1..Len(th[t].results) :
                  /\ DOMAIN th[t].results[j] = {"name", "path", "size"}
                  /\ th[t].results[j].size \in Nat
                  /\ th[t].results[j].name = basename(th[t].results[j].path)

C2_Witness ==
    \E t \in Threads :
        /\ th[t].pc = "done" /\ ~th[t].all_fields
        /\ th[t].count = 1 /\ th[t].query = "C:"
        /\ Len(th[t].results) = 1
        /\ Len(Matching(th[t].query, TRUE)) > 1

\* C3 (as claimed): Everything.search(q, offset = k, count = 0) returns the list
\* of Everything.search(q, 0, 0) without its first k records: its length is
\* len(all) - k and its first record is all[k].
C3_OffsetSkipsLeading ==
    \A t \in Threads :
        LET c   == th[t]
            all == RecordsOf(Matching(c.query, TRUE), c.all_fields)
        IN  (c.api = "Everything" /\ c.pc = "done" /\ c.count = 0 /\ faults = 0
               /\ c.offset <= Len(all)) =>
                /\ Len(c.results) = Len(all) - c.offset
                /\ c.offset < Len(all) => c.results[1] = all[c.offset + 1]

\* C4: a completed run_search or EverythingDLL.search has called
\* Everything_CleanUp exactly once, as its last provider call, right after the
\* last field of the last result (or after GetNumResults when there are none).
C4_CleanUpOnceAtEnd ==
    \A t \in Threads :
        LET c == th[t]
            n == Len(c.log)
        IN  (c.pc = "done" /\ c.api \in {"run_search", "EverythingDLL"}) =>
                /\ c.outcome = "returned"
                /\ Positions(c.log, {"CleanUp"}) = {n}
                /\ c.log[n - 1] =
                      IF c.total = 0 THEN [fn |-> "GetNumResults", idx |-> -1]
                      ELSE [fn |-> IF c.all_fields THEN ExtGetters[Len(ExtGetters)]
                                   ELSE "GetResultSize",
                            idx |-> c.total - 1]

C4_Witness ==
    \E t \in Threads :
        /\ th[t].pc = "done" /\ th[t].api = "run_search" /\ th[t].all_fields
        /\ Len(th[t].results) = 3
        /\ Cardinality(Positions(th[t].log, {"CleanUp"})) = 1

\* C5 (as claimed): a call that aborts (query failure, or a getter raising
\* while the results are drained) has called Everything_CleanUp before aborting.
C5_CleanUpOnFailure ==
    \A t \in Threads :
        th[t].pc = "aborted" => Positions(th[t].log, {"CleanUp"}) # {}

\* C6: within one search call the provider calls follow Configured -> Queried ->
\* Drained -> Reset: the five setters come first, then QueryW exactly once, then
\* GetNumResults, then result getters for ascending indexes inside the reported
\* range, then CleanUp, after which no setter or getter is called.
C6_CallOrder ==
    \A t \in Threads :
        LET c   == th[t]
            log == c.log
            q   == Positions(log, {"QueryW"})
            g   == Positions(log, ResultGetters)
        IN  /\ Cardinality(q) <= 1
            /\ \A p \in Positions(log, Setters) : \A r \in q : p < r
            /\ q # {} => \A s \in Setters : Cardinality(Positions(log, {s})) = 1
            /\ \A p \in Positions(log, {"GetNumResults"}) : \E r \in q : r < p
            /\ \A p \in g :
                  /\ \E r \in Positions(log, {"GetNumResults"}) : r < p
                  /\ log[p].idx >= 0 /\ log[p].idx < c.total
                  /\ \A r \in g : r < p => log[r].idx <= log[p].idx
            /\ \A p \in Positions(log, {"CleanUp"}) :
                  /\ \A r \in g \cup q : r < p
                  /\ \A r \in (p + 1)..Len(log) : log[r].fn = "Reset"
            /\ c.pc = "done" =>
                  /\ Cardinality(q) = 1
                  /\ Cardinality(Positions(log, {"CleanUp"})) = 1

C6_Witness ==
    \E t \in Threads :
        /\ th[t].pc = "done" /\ th[t].api = "Everything"
        /\ th[t].offset = 1 /\ th[t].count = 0 /\ th[t].total = 2
        /\ Len(th[t].results) = 1
        /\ \E p \in Positions(th[t].log, ResultGetters) : th[t].log[p].idx = 1

\* C7: when the callers serialize their calls, every Everything_QueryW runs with
\* the configuration of the call that issues it and the returned list is the
\* result window of that configuration.
C7_SerializedOwnConfig ==
    serialized =>
        \A t \in Threads :
            LET c == th[t]
            IN  /\ c.qok # "none" => c.qcfg = OwnConfig(c)
                /\ c.pc = "done" =>
                      c.results = RecordsOf(Window(Matching(c.query, TRUE), c.offset,
                                                   c.count), c.all_fields)

\* C7, the unserialized half: a call whose QueryW ran with the other call's
\* pattern and which returned records that are not those of its own configuration
C7_Witness ==
    /\ ~serialized
    /\ \E t \in Threads :
          LET c == th[t]
          IN  /\ c.pc = "done"
              /\ c.qcfg.search # c.query
              /\ c.results # RecordsOf(Window(Matching(c.query, TRUE), c.offset,
                                              c.count), c.all_fields)

\* C8 (as claimed): in extended mode no failure of an optional field getter
\* aborts the call: a call never ends on an optional getter's exception.
C8_OptionalGetterNonFatal ==
    \A t \in Threads :
        LET c == th[t]
        IN  (c.pc = "aborted" /\ c.api = "EverythingDLL" /\ c.all_fields) =>
                c.log[Len(c.log)].fn \notin {ExtGetters[k] : k \in 1..Len(ExtGetters)}

\* C9 (as claimed): each record of Everything.search has name = the file name and
\* path = the directory of the provider's full path, so joining them gives it.
C9_PathIsDirectory ==
    \A t \in Threads :
        LET c == th[t]
        IN  (c.api = "Everything" /\ c.pc = "done" /\ faults = 0) =>
                \A j \in 1..Len(c.results) :
                    \E n \in 1..Len(Index) :
                        /\ c.results[j].name = basename(Index[n].full_path)
                        /\ c.results[j].path = dirname(Index[n].full_path)
                        /\ PathJoin(c.results[j].path, c.results[j].name)
                              = Index[n].full_path

(***************************************************************************)
(* C11 - C14: the tabular parser                                           *)
(***************************************************************************)
HostsRow == << <<"hosts">>, <<"C:", "Windows", "System32", "drivers", "etc">>, <<"959">> >>

FileRow == << <<"file.txt">>, <<"C:", "Temp">>, <<"128">> >>

NamePathSize == << <<"Name">>, <<"Path">>, <<"Size">> >>

\* C11 (as claimed): under the header Name,Path,Size every row that brings a
\* name and a directory yields a record whose name is the name cell and whose
\* path is the directory joined with the name (hosts, C:\...\etc gives
\* C:\...\etc\hosts); one record per data row.
C11_PathReconstructed ==
    (csv.done /\ Len(csv.rows) > 0 /\ csv.rows[1] = NamePathSize
              /\ csv.field_names = BasicNames) =>
        /\ Len(csv.records) = Len(csv.rows) - 1
        /\ \A j \in 1..Len(csv.records) :
              LET row == csv.rows[j + 1]
              IN  (Len(row) >= 2 /\ row[1] # <<>> /\ row[2] # <<>>) =>
                      /\ csv.records[j]["name"] = row[1]
                      /\ csv.records[j]["path"] = PathJoin(row[2], row[1])

\* a cell's text folded to lower case with its spaces removed
Folded(text) ==
    CASE text \in {"Name", "name"} -> "name"
      [] text \in {"Path", "path", "PATH"} -> "path"
      [] text \in {"Size", "size"} -> "size"
      [] text = "Filename" -> "filename"
      [] text \in {"Date Modified", "DATE MODIFIED", "DateModified"} -> "datemodified"
      [] text = "Date Created" -> "datecreated"
      [] text = "Attributes" -> "attributes"
      [] OTHER -> text

\* the header vocabulary, folded, with the field each word names
FoldedWords ==
    { <<"name", "name">>, <<"filename", "path">>, <<"path", "path">>,
      <<"fullpathandname", "path">>, <<"extension", "extension">>, <<"size", "size">>,
      <<"datecreated", "date_created">>, <<"datemodified", "date_modified">>,
      <<"dateaccessed", "date_accessed">>, <<"attributes", "attributes">>,
      <<"filelistfilename", "file_list_file_name">>, <<"runcount", "run_count">>,
      <<"daterun", "date_run">>, <<"daterecentlychanged", "date_recently_changed">> }

IsHeaderWord(cell) ==
    Len(cell) = 1 /\ \E w \in FoldedWords : w[1] = Folded(cell[1])

FieldOfWord(cell) == (CHOOSE w \in FoldedWords : w[1] = Folded(cell[1]))[2]

HasHeaderWord(row) == \E p \in 1..Len(row) : IsHeaderWord(row[p])

\* C12 (as claimed): a first row with a cell that is a header word, whatever its
\* case and spacing, is a header: it is not returned as a record, and each
\* column under a header word is stored under that word's field.
C12_HeaderAnySpelling ==
    (csv.done /\ Len(csv.rows) > 0 /\ HasHeaderWord(csv.rows[1])) =>
        /\ Len(csv.records) = Len(csv.rows) - 1
        /\ \A j \in 1..Len(csv.records), p \in 1..Len(csv.rows[1]) :
              (IsHeaderWord(csv.rows[1][p]) /\ p <= Len(csv.rows[j + 1])) =>
                  FieldOfWord(csv.rows[1][p]) \in DOMAIN csv.records[j]

\* the header row that names the fields of a field list
HeaderWordOf(name) ==
    CASE name = "name" -> <<"Name">>
      [] name = "path" -> <<"Path">>
      [] name = "size" -> <<"Size">>
      [] name = "date_modified" -> <<"Date Modified">>
      [] name = "date_created" -> <<"Date Created">>
      [] name = "attributes" -> <<"Attributes">>

HeaderRowOf(field_names) == [p \in 1..Len(field_names) |-> HeaderWordOf(field_names[p])]

\* C13: text whose first row holds no header word is all data: n rows give n
\* records in input order, column i of a row is stored under field_names[i]
\* (the path possibly joined with the name), and each record has the keys of
\* the record the same rows give under a header row naming field_names.
C13_HeaderlessPositional ==
    (csv.done /\ Len(csv.rows) > 0 /\ ~HasHeaderWord(csv.rows[1])) =>
        LET fn       == csv.field_names
            headered == parse_csv_text(<<HeaderRowOf(fn)>> \o csv.rows, fn)
        IN  /\ Len(csv.records) = Len(csv.rows)
            /\ Len(headered) = Len(csv.rows)
            /\ \A j \in 1..Len(csv.records) :
                  LET row == csv.rows[j]
                      rec == csv.records[j]
                  IN  /\ DOMAIN rec = DOMAIN headered[j]
                      /\ DOMAIN rec = {fn[i] : i \in 1..Len(fn)}
                      /\ \A i \in 1..Len(fn) :
                            i <= Len(row) =>
                                \/ rec[fn[i]] = row[i]
                                \/ /\ fn[i] = "path"
                                   /\ "name" \in DOMAIN rec
                                   /\ rec[fn[i]] = PathJoin(row[i], rec["name"])

\* C13 witness: header-less file.txt,C:\Temp,128 followed by more rows, parsed
\* with [name, path, size]
C13_Witness ==
    /\ csv.done
    /\ csv.field_names = BasicNames
    /\ Len(csv.rows) >= 2
    /\ csv.rows[1] = FileRow
    /\ Len(csv.records) = Len(csv.rows)
    /\ csv.records[1] = [name |-> <<"file.txt">>, path |-> <<"C:", "Temp">>,
                         size |-> <<"128">>]

\* C14: empty text gives no record; otherwise every row, except a first row that
\* is a header, gives one record, in order; that record has every requested
\* field as a key; a requested field the row has no column for is None; the
\* columns beyond the keys are in no record.
C14_RowShapeTolerated ==
    csv.done =>
        LET fn   == csv.field_names
            n    == Len(csv.records)
            skip == Len(csv.rows) - n
        IN  /\ csv.rows = <<>> => csv.records = <<>>
            /\ skip \in {0, 1}
            /\ csv.rows # <<>> =>
                  LET keys == ColumnKeys(csv.rows[1], fn)
                  IN  \A j \in 1..n :
                         LET row == csv.rows[j + skip]
                             rec == csv.records[j]
                         IN  /\ \A i \in 1..Len(fn) : fn[i] \in DOMAIN rec
                             /\ \A i \in 1..Len(fn) :
                                   (\A p \in 1..Len(keys) :
                                        keys[p] = fn[i] => p > Len(row))
                                       => rec[fn[i]] = Missing
                             /\ \A p \in 1..Len(row) :
                                   p > Len(keys) => \A k \in DOMAIN rec : rec[k] # row[p]

\* C14 witness: a parse of a one-cell row, a four-cell row and three keys
C14_Witness ==
    /\ csv.done
    /\ csv.field_names = BasicNames
    /\ Len(csv.rows) = 3
    /\ csv.rows[1] = HostsRow
    /\ csv.rows[2] = << <<"hosts">> >>
    /\ Len(csv.rows[3]) = 4
    /\ Len(csv.records) = 3
    /\ csv.records[2] = [name |-> <<"hosts">>, path |-> Missing, size |-> Missing]
    /\ csv.records[3]["size"] = <<"128">>

(***************************************************************************)
(* C15 - C19: the es.exe adapter                                           *)
(***************************************************************************)
\* main took the search path and built its command line
EsCommandBuilt == es.cmd # <<>> /\ ~es.args.locate /\ ~es.args.es_help

\* every word of flags is a word of the command line
Carries(cmd, flags) ==
    \A p \in 1..Len(flags) : \E q \in 1..Len(cmd) : cmd[q] = flags[p]

\* C15 (as claimed): with --json or --csv and without --all-fields, the command
\* line carries the flags of build_field_config(False), the parser is given
\* [name, path, size], and every record has exactly the keys name, path, size.
C15_BasicFlagsAndKeys ==
    (EsCommandBuilt /\ (es.args.json \/ es.args.csv) /\ ~es.args.all_fields) =>
        /\ Carries(es.cmd, BasicFlags)
        /\ es.expected = BasicNames
        /\ \A j \in 1..Len(es.records) : DOMAIN es.records[j] = {"name", "path", "size"}

\* C16 (as claimed): a run with --search, --json and --all-fields that found
\* es.exe ends after exactly one es.exe invocation whose command line carries
\* the extended flags, with the extended field names given to the parser, and,
\* when es.exe succeeded, with the records as JSON on stdout and exit code 0.
C16_AllFieldsJson ==
    (es.pc = "exit" /\ es.es_cmd # 0 /\ ~es.args.locate /\ ~es.args.es_help
        /\ es.args.search # <<>> /\ es.args.json /\ es.args.all_fields) =>
        /\ es.ran = 1
        /\ Carries(es.cmd, AllFieldFlags)
        /\ es.expected = AllFieldNames
        /\ (es.returncode = 0 /\ es.exc # "OSError") =>
               (es.code = 0 /\ es.out.kind = "json" /\ es.out.records = es.records)

\* C17 (as claimed): a successful --json search with offset k and count n > 0
\* has "-offset k" on its command line when k > 0, and returns the records of
\* the matches that follow the first k matches of the search.
C17_OffsetHonoured ==
    (es.pc = "exit" /\ es.code = 0 /\ es.out.kind = "json" /\ es.args.count > 0) =>
        LET hits == Window(EsMatches(es.args.search, FALSE), es.args.offset,
                           es.args.count)
        IN  /\ es.args.offset > 0 =>
                  \E q \in 1..(Len(es.cmd) - 1) :
                      es.cmd[q] = "-offset" /\ es.cmd[q + 1] = ToString(es.args.offset)
            /\ Len(es.out.records) = Len(hits)
            /\ \A j \in 1..Len(hits) :
                  es.out.records[j]["path"] = Index[hits[j]].full_path

\* the search ran es.exe and es.exe returned an exit code
EsReturned ==
    es.pc = "exit" /\ EsCommandBuilt /\ es.ran = 1 /\ es.exc # "OSError"

\* C18: after es.exe returned a non-zero code, main ends by sys.exit with a
\* message that holds es.exe's stderr text, and writes nothing to stdout;
\* after exit code 0 with empty stdout, main ends with exit code 0 and writes
\* the empty JSON list under --json and "No results found." otherwise.
C18_ExitCodeOutcomes ==
    /\ (EsReturned /\ es.returncode # 0) =>
           /\ es.code # 0
           /\ es.exc = "SystemExit"
           /\ Len(es.message) = 2 /\ es.message[2] = es.stderr
           /\ es.stderr = EsStderr
           /\ es.out = NoOutput
    /\ (EsReturned /\ es.returncode = 0 /\ es.stdout = <<>>) =>
           /\ es.code = 0
           /\ es.exc = ""
           /\ es.args.json => (es.out.kind = "json" /\ es.out.records = <<>>)
           /\ ~es.args.json =>
                  (es.out.kind = "message" /\ es.out.text = "No results found.")

\* C18 witness: a --json search whose es.exe failed
C18_Witness ==
    /\ EsReturned
    /\ es.args.json
    /\ es.returncode = 1
    /\ es.message = <<"Error exporting CSV: ", EsStderr>>

\* a location holds a usable es.exe: an executable file, or, for the install
\* locations, a file
Available(fs, k) ==
    IF k \in 1..4 THEN fs[k] = "exec" ELSE fs[k] # "absent"

C20_EndpointPrecedence ==
    (http.pc \notin {"idle", "resolve"}
        /\ (http.args.port = None \/ http.args.port[1] # 0)
        /\ (http.args.port = None /\ http.env.port # None
               => IntParse(http.env.port[1]) \notin {None, <<0>>})) =>
        /\ http.message # <<"Invalid port number in EVERYTHING_PORT environment variable.">>
        /\ http.host = IF http.args.host # None THEN http.args.host[1]
                       ELSE IF http.env.host # None THEN http.env.host[1]
                       ELSE "127.0.0.1"
        /\ http.port = IF http.args.port # None THEN http.args.port[1]
                       ELSE IF http.env.port # None THEN IntParse(http.env.port[1])[1]
                       ELSE 80
        /\ \A p \in 1..Len(http.requests) :
              http.requests[p].host = http.host /\ http.requests[p].port = http.port

(***************************************************************************)
(* C27 - C29: what one result, and one search, takes from another          *)
(***************************************************************************)
\* the index entry the provider holds at result index i of the query of call c
EntryAt(c, i) ==
    Index[Window(Matching(c.qcfg.search, c.qcfg.matchPath),
                 c.qcfg.offset, c.qcfg.max)[i + 1]]

\* C27 (as claimed): record j of a search holds the path and the size of its own
\* result index, or the empty path (size 0) when the getter wrote nothing for
\* that index; it never holds the path that an earlier index left in the buffer.
C27_OwnIndexPath ==
    \A t \in Threads :
        \A j \in 1..Len(th[t].results) :
            LET c == th[t]
                i == StartIndex(c.api, c.offset) + j - 1
            IN  /\ c.results[j].path \in {<<>>, EntryAt(c, i).full_path}
                /\ c.results[j].size \in {0, EntryAt(c, i).size}

\* bit b (a power of two) is set in the request flags f
RequestsField(f, b) == (f \div b) % 2 = 1

\* the setter calls made since the search call before the current one began
SetSince(t, fns) ==
    {p \in 1..Len(ev.log) : ev.log[p].fn \in fns /\ ev.log[p].at = calls[t] - 1}

ModeSetters == {"set_match_case", "set_match_whole_word", "set_regex", "set_sort_order"}

\* the value of the mode that setter fn sets, in the modes m of a query
ModeOf(m, fn) ==
    CASE fn = "set_match_case" -> IF m.matchCase THEN 1 ELSE 0
      [] fn = "set_match_whole_word" -> IF m.wholeWord THEN 1 ELSE 0
      [] fn = "set_regex" -> IF m.regex THEN 1 ELSE 0
      [] fn = "set_sort_order" -> m.sort

\* C29 (as claimed): the Everything_QueryW of a search runs, for each match mode
\* and for the sort order, with the value of the last setter call made since
\* the search before it began, and with the provider's default when no such
\* call was made.
C29_ModesForNextSearchOnly ==
    \A t \in Threads : \A fn \in ModeSetters :
        LET c    == th[t]
            sets == SetSince(t, {fn})
        IN  (c.api = "Everything" /\ c.qok # "none") =>
                IF sets = {}
                THEN ModeOf(c.qmodes, fn) = ModeOf(ModesOf(DllDefaults), fn)
                ELSE \E p \in sets :
                        /\ \A q \in sets : q <= p
                        /\ ModeOf(c.qmodes, fn) = ev.log[p].value

(***************************************************************************)
(* C23 - C26, C30: the connectivity diagnostic and the --json output       *)
(***************************************************************************)
\* a run of main in --test mode has ended after at least one search
TestEnded(api) ==
    diag.api = api /\ diag.args.test /\ diag.pc = "exit" /\ diag.searched # <<>>

\* position of the first record whose path is the hosts path
\* C:\Windows\System32\drivers\etc\hosts, letter case ignored; 0 when none
HostsRecord(results) ==
    LET hits == {j \in 1..Len(results) : LowerText(results[j].path) = LowerText(HostsPath)}
    IN  IF hits = {} THEN 0 ELSE CHOOSE j \in hits : \A k \in hits : j <= k

\* what main itself wrote to stdout: the writes without run_search's DEBUG_DLL lines
OwnWrites(out) == SelectSeq(out, LAMBDA w : w.kind # "DEBUG_DLL")

\* stdout and the exit code of a diagnostic that passed with size s
ReportsPassed(s) ==
    /\ diag.code = 0
    /\ diag.exc = ""
    /\ OwnWrites(diag.out) = <<Written("passed", diag.args.json, s, <<>>)>>

\* the diagnostic ended in a failure: no verdict on stdout, non-zero exit code
ReportsFailure ==
    /\ diag.code # 0
    /\ \A p \in 1..Len(diag.out) : diag.out[p].kind \notin {"passed", "warning"}

HostsTail == <<"", "windows", "system32", "drivers", "etc", "hosts">>

\* the text p ends with the text tail
EndsWithText(p, tail) ==
    /\ Len(p) >= Len(tail)
    /\ AtomEndsWith(p[Len(p) - Len(tail) + 1], tail[1])
    /\ \A j \in 2..Len(tail) : p[Len(p) - Len(tail) + j] = tail[j]

\* position of the first record whose lower-cased, separator-normalized path
\* ends with the tail; 0 when none
TailRecord(results) ==
    LET hits == {j \in 1..Len(results) :
                    EndsWithText(ReplaceSlash(LowerText(results[j].path)), HostsTail)}
    IN  IF hits = {} THEN 0 ELSE CHOOSE j \in hits : \A k \in hits : j <= k

\* the record the diagnostic is to check: the hosts record wherever it stands,
\* else the first record that ends with the tail
PreferredRecord(results) ==
    IF HostsRecord(results) # 0 THEN HostsRecord(results) ELSE TailRecord(results)

\* C24 (as claimed): dll_class main --test, after a search that returned
\* records: it fails with 'not found' only if no record qualifies; otherwise it
\* goes on with the preferred record, so with a record of size s > 0 it reports
\* passed with s.
C24_ClassSelectsRecord ==
    (TestEnded("dll_class") /\ diag.results # <<>>) =>
        LET m == PreferredRecord(diag.results)
        IN  /\ (diag.message = "Test failed: hosts file not found among search results.")
                  <=> (m = 0)
            /\ (m # 0 /\ diag.results[m].size > 0) => ReportsPassed(diag.results[m].size)

\* C25 (as claimed): in both diagnostics, after a search that returned records
\* of which the record to check has indexed size 0: a hosts file of more than
\* one byte on disk gives the warning on stdout, no failure and exit code 0; an
\* absent or empty hosts file gives a failure. With an indexed size > 0 the
\* filesystem is not consulted.
C25_SizeZeroFallback ==
    \A api \in {"dll", "dll_class"} :
        (TestEnded(api) /\ diag.results # <<>>) =>
            LET m == IF api = "dll" THEN HostsRecord(diag.results)
                     ELSE PreferredRecord(diag.results)
            IN  /\ (m # 0 /\ diag.results[m].size = 0 /\ ActualSize(diag.fs) > 1) =>
                       /\ diag.code = 0
                       /\ diag.exc = ""
                       /\ OwnWrites(diag.out) =
                              <<Written("warning", diag.args.json, ActualSize(diag.fs), <<>>)>>
                /\ (m # 0 /\ diag.results[m].size = 0 /\ ActualSize(diag.fs) = 0) =>
                       ReportsFailure
                /\ (m # 0 /\ diag.results[m].size > 0) => diag.fschecks = 0

\* C26: dll_class main --test searches the formulations in the order exact
\* path, path-scoped token query, bag of path segments, each once, at most
\* three; a formulation is searched only after every earlier one returned no
\* record; when all three returned none main ends with 'no search results';
\* a search that raised is the last one and ends main at once.
C26_QueriesInOrder ==
    (diag.api = "dll_class" /\ diag.args.test) =>
        LET qs == <<HostfileClass,
                    <<"path:\"\\\\\\\\windows\\\\\\\\system32\\\\\\\\drivers\\\\\\\\etc\" hosts">>,
                    <<"windows system32 drivers etc hosts">>>>
            n  == Len(diag.searched)
        IN  /\ n <= 3
            /\ \A k \in 1..n : diag.searched[k].query = qs[k]
            /\ \A k \in 1..(n - 1) : diag.searched[k].n = 0
            /\ (diag.pc = "test" /\ n > 0) => diag.searched[n].n = 0
            /\ (diag.pc = "verdict") => (diag.searched[n].n > 0 \/ n = 3)
            /\ (diag.pc = "exit" /\ n = 3 /\ diag.searched[3].n = 0
                    /\ diag.message # "Error: Everything query failed."
                    /\ diag.message # "getter failed") =>
                   /\ diag.message = "Test failed: no search results returned for hosts file."
                   /\ diag.code # 0
            /\ (diag.message \in {"Error: Everything query failed.", "getter failed"}) =>
                   /\ diag.pc = "exit"
                   /\ diag.code # 0
                   /\ diag.results = <<>>

\* C26 witness: the first two formulations returned nothing, the third one did
C26_Witness ==
    /\ diag.api = "dll_class" /\ diag.args.test
    /\ diag.pc = "verdict"
    /\ Len(diag.searched) = 3
    /\ diag.searched[1].n = 0 /\ diag.searched[2].n = 0 /\ diag.searched[3].n = 2
    /\ Len(diag.results) = 2

(***************************************************************************)
(* C21, C22: errors of the HTTP adapter                                    *)
(***************************************************************************)
\* no --port argument, and EVERYTHING_PORT holds a text that is no integer
UnparsablePort ==
    /\ http.args.port = None
    /\ http.env.port # None
    /\ IntParse(http.env.port[1]) = None

\* C21: with no --port and an EVERYTHING_PORT that is no integer, main is over
\* right after its resolution: it has ended by sys.exit with the invalid-port
\* message, has sent no request, and has not taken port 80.
C21_UnparsablePortFatal ==
    (UnparsablePort /\ http.pc \notin {"idle", "resolve"}) =>
        /\ http.pc = "exit"
        /\ http.exc = "SystemExit"
        /\ http.code # 0
        /\ http.message = <<"Invalid port number in EVERYTHING_PORT environment variable.">>
        /\ http.requests = <<>>
        /\ http.port # 80
        /\ http.out = NoOutput

\* C21 witness: EVERYTHING_PORT=abc stopped a search that named a host
C21_Witness ==
    /\ http.pc = "exit"
    /\ http.args.port = None /\ http.env.port = <<"abc">>
    /\ http.args.host = <<"example.org">> /\ http.args.search = "C:"
    /\ http.code # 0
    /\ http.requests = <<>>

(***************************************************************************)
(* C22: in the HTTP normal search a connection failure, a status that is   *)
(* not 2xx or a body that is no JSON ends the call with a fatal error and  *)
(* is never reported as "No results found." or as an empty list of         *)
(* results; an answer whose results array is empty is reported as no       *)
(* results without an error; each search issues exactly one GET request.   *)
(***************************************************************************)
NormalSearchEnded == http.pc = "exit" /\ ~http.args.test /\ http.requests # <<>>

NoResultsReport == [NoOutput EXCEPT !.kind = "message", !.text = "No results found."]

C22_HttpFailuresFatal ==
    /\ ~http.args.test => Len(http.requests) <= 1
    /\ NormalSearchEnded =>
          /\ Len(http.requests) = 1
          /\ http.requests[1].params.search = http.args.search
          /\ http.reply # "ok" =>
                /\ http.code # 0
                /\ http.exc # ""
                /\ http.out = NoOutput
          /\ (http.reply = "ok" /\ HttpResults(Params(http.args)) = <<>>) =>
                /\ http.code = 0
                /\ http.exc = ""
                /\ http.out = NoResultsReport

C22_Witness ==
    /\ NormalSearchEnded
    /\ http.reply = "JSONDecodeError"
    /\ http.args.search = "nomatch"
    /\ http.code # 0
    /\ http.out = NoOutput

EmptyAnswerReported ==
    /\ NormalSearchEnded
    /\ http.reply = "ok"
    /\ http.results = <<>>
    /\ http.out = NoResultsReport

(***************************************************************************)
(* C30: with --json every successful normal search of the dll, dll_class,  *)
(* es and HTTP entry points writes a JSON array to stdout, the empty array *)
(* when nothing matches, and never a plain-text message in its place.      *)
(***************************************************************************)
\* the entry point wrote the array of these records, and nothing in its place
WroteArray(out, records) == out = [NoOutput EXCEPT !.kind = "json", !.records = records]

HttpJsonSearchDone ==
    http.pc = "exit" /\ ~http.args.test /\ http.args.json /\ http.code = 0 /\ http.reply = "ok"

EsJsonSearchDone ==
    /\ es.pc = "exit" /\ es.args.json /\ ~es.args.locate /\ ~es.args.es_help
    /\ es.code = 0 /\ es.ran > 0

DiagJsonSearchDone ==
    diag.pc = "exit" /\ ~diag.args.test /\ diag.args.json /\ diag.code = 0

EsWritesArray == EsJsonSearchDone => WroteArray(es.out, es.records)

DiagWritesArray ==
    DiagJsonSearchDone => OwnWrites(diag.out) = <<Written("array", TRUE, 0, diag.results)>>

C30_JsonAlwaysArray ==
    /\ HttpJsonSearchDone => WroteArray(http.out, http.results)
    /\ EsWritesArray
    /\ DiagWritesArray

====
